---------------------------- MODULE Spec2Model ----------------------------
(***************************************************************************)
(* mrt-ingester: the MRT streaming reader (src/src/lib.rs), its family     *)
(* decoders (src/src/records/*.rs) and the read-ahead reader               *)
(* (src/src/readahead.rs).                                                 *)
(*                                                                         *)
(* Byte streams are sequences of integers 0..255.  Offsets are 0-based, as *)
(* in the source.  IP addresses are kept as their octets (Ipv4Addr and     *)
(* Ipv6Addr are octet arrays), every other integer field is decoded        *)
(* big-endian.                                                             *)
(***************************************************************************)
EXTENDS Integers, Sequences, FiniteSets, TLC

VARIABLES
    \* ---- streaming reader (lib.rs) ----
    input,      \* the records the source was written from
    stream,     \* the bytes of the source
    maxcalls,   \* how many calls the caller makes on each stream
    posR,       \* offset of the stream handed to read
    outR,       \* outcomes of the calls of read, in call order
    posB,       \* offset of the stream handed to read_with_buffer
    outB,       \* outcomes of the calls of read_with_buffer
    body_buf,   \* the caller's Vec<u8>: [cap, len, mem]
    posH,       \* offset of the stream handed to read_header_only
    outH,       \* outcomes of the calls of read_header_only
    \* ---- read-ahead reader (readahead.rs) ----
    file,       \* the bytes of the file
    chunk_size, \* from_file argument
    queue_depth,\* from_file argument
    fpos,       \* file offset of the producer thread
    ppc,        \* producer thread: "read", "send", "exit", "done"
    pitem,      \* the item the producer is sending
    perr,       \* the producer's file.read returned Err
    queue,      \* items buffered in the sync_channel
    rxAlive,    \* the Receiver (the ReadAheadReader) has not been dropped
    txAlive,    \* the SyncSender (owned by the producer thread) has not been dropped
    current_buf,\* ReadAheadReader.current_buf
    pos,        \* ReadAheadReader.pos
    cpc,        \* consumer: "idle", "recv" (blocked inside fill_buffer), "dropped"
    req,        \* length of the destination of the last read call (in progress or not)
    ret,        \* what the last completed read call returned
    delivered,  \* bytes copied to the caller so far
    gotNone,    \* Ok(None) has been received from the queue
    nread,      \* chunks the producer has read from the file
    ntaken      \* chunks the consumer has taken from the queue

decVars == <<input, stream, maxcalls, posR, outR, posB, outB, body_buf, posH, outH>>
raVars  == <<file, chunk_size, queue_depth, fpos, ppc, pitem, perr, queue, rxAlive,
             txAlive, current_buf, pos, cpc, req, ret, delivered, gotNone,
             nread, ntaken>>
vars    == <<decVars, raVars>>

-----------------------------------------------------------------------------
(* Bounds of the model *)

MaxRecs == 2        \* records per stream
MaxSlack == 1       \* extra capacity Vec::reserve may add
MaxFile == 12       \* file length (read-ahead)
MaxChunk == 2       \* chunk_size
MaxDepth == 2       \* queue_depth
MaxReq == 2         \* destination length of a consumer read

-----------------------------------------------------------------------------
(* Byte helpers *)

Min(a, b) == IF a < b THEN a ELSE b
Max(a, b) == IF a > b THEN a ELSE b

\* variant: subtraction that goes below zero
plain_sub(a, b) == a - b

\* u32::saturating_sub
saturating_sub(a, b) == IF a > b THEN a - b ELSE 0

\* n bytes of s from 0-based offset p
Slice(s, p, n) == SubSeq(s, p + 1, p + n)

\* from_be_bytes / read_uN::<BigEndian>
RECURSIVE BE(_)
BE(bs) == IF bs = <<>> THEN 0
          ELSE BE(SubSeq(bs, 1, Len(bs) - 1)) * 256 + bs[Len(bs)]

\* Read::read_exact on a byte source at offset p: all n bytes, or
\* UnexpectedEof with the source drained.
read_exact(s, p, n) ==
    IF n = 0 THEN [ok |-> TRUE, pos |-> p, bytes |-> <<>>]
    ELSE IF p + n <= Len(s)
         THEN [ok |-> TRUE, pos |-> p + n, bytes |-> Slice(s, p, n)]
         ELSE [ok |-> FALSE, pos |-> Max(p, Len(s)), bytes |-> <<>>]

\* results of a family decoder
PErr(kind) == [ok |-> FALSE, kind |-> kind, val |-> [tag |-> "none"], used |-> 0]
POk(val, used) == [ok |-> TRUE, kind |-> "", val |-> val, used |-> used]

-----------------------------------------------------------------------------
(* lib.rs: AFI *)

AFI_IPV4 == 1
AFI_IPV6 == 2

\* AFI::size
AFI_size(afi) == IF afi = AFI_IPV4 THEN 4 ELSE 16

\* variant: every 16-bit value taken for an AFI
AFI_from_u16_any(value) == TRUE

\* AFI::from_u16: TRUE when the value is accepted
AFI_from_u16_ok(value) == value \in {AFI_IPV4, AFI_IPV6}

\* variant: the sum computed in 8 bits
prefix_bytes_needed_u8(prefix_length) == ((prefix_length + 7) % 256) \div 8

\* address::prefix_bytes_needed
prefix_bytes_needed(prefix_length) == (prefix_length + 7) \div 8

-----------------------------------------------------------------------------
(* The cursor over a record body (std::io::Cursor over the body slice).     *)
(* A decoder is the list of the reads it makes, in source order; Run makes  *)
(* them one after the other and stops at the first that fails.              *)
(*   st.pos  cursor offset         st.env  the fields read so far           *)

St0 == [ok |-> TRUE, kind |-> "", pos |-> 0, env |-> <<>>]

Has(body, st, n) == st.pos + n <= Len(body)
Take(body, st, n) == Slice(body, st.pos, n)
Put(st, name, v, n) == [st EXCEPT !.pos = @ + n, !.env = (name :> v) @@ @]
Fail(st, kind) == [st EXCEPT !.ok = FALSE, !.kind = kind]

\* the reads
U(name, n) == [k |-> "U", name |-> name, n |-> n]       \* read_uN::<BigEndian>
B(name, n) == [k |-> "B", name |-> name, n |-> n]       \* read_exact of n bytes, read_ipv4, read_ipv6
AFIF(name) == [k |-> "AFI", name |-> name]              \* read_afi
IP(name, afi) == [k |-> "IP", name |-> name, afi |-> afi]   \* read_ip_by_afi
RESTAFI(name, total, base, afi) ==                      \* total - (base + 2 * afi.size()), saturating
    [k |-> "RESTAFI", name |-> name, total |-> total, base |-> base, afi |-> afi]
LP(name) == [k |-> "LP", name |-> name]                 \* u16 length, then that many bytes
STR(name) == [k |-> "STR", name |-> name]               \* u16 length, bytes, from_utf8_lossy
PFX(name, len) == [k |-> "PFX", name |-> name, len |-> len]  \* prefix_bytes_needed(len) bytes
FLAGIP(name, flags) == [k |-> "FLAGIP", name |-> name, flags |-> flags]
FLAGAS(name, flags) == [k |-> "FLAGAS", name |-> name, flags |-> flags]
LIST(name, entry) == [k |-> "LIST", name |-> name, entry |-> entry]  \* u16 count, then the entries

\* String::from_utf8_lossy, on bytes that are ASCII or can never occur in
\* UTF-8 (0xC0, 0xC1, 0xF5..0xFF): the latter become U+FFFD.  The result is
\* the sequence of code points.
from_utf8_lossy(bytes) ==
    [i \in 1..Len(bytes) |-> IF bytes[i] < 128 THEN bytes[i] ELSE 65533]

\* variant: a short read returns the bytes there are
ReadBytesLenient(body, st, name, n) ==
    Put(st, name, Take(body, st, Min(n, Len(body) - st.pos)), n)

\* read_exact of n bytes into a field
ReadBytes(body, st, name, n) ==
    IF Has(body, st, n) THEN Put(st, name, Take(body, st, n), n)
    ELSE Fail(st, "UnexpectedEof")

\* read_uN
ReadUint(body, st, name, n) ==
    IF Has(body, st, n) THEN Put(st, name, BE(Take(body, st, n)), n)
    ELSE Fail(st, "UnexpectedEof")

\* address::read_afi: read_u16, then AFI::from_u16
read_afi(body, st, name) ==
    IF ~Has(body, st, 2) THEN Fail(st, "UnexpectedEof")
    ELSE IF ~AFI_from_u16_ok(BE(Take(body, st, 2)))
         THEN Fail([st EXCEPT !.pos = @ + 2], "InvalidData")
         ELSE Put(st, name, BE(Take(body, st, 2)), 2)

\* u16 length prefix, then a blob of that length
ReadLP(body, st, name, lossy) ==
    IF ~Has(body, st, 2) THEN Fail(st, "UnexpectedEof")
    ELSE IF ~Has(body, st, 2 + BE(Take(body, st, 2)))
         THEN Fail([st EXCEPT !.pos = @ + 2], "UnexpectedEof")
         ELSE Put(st, name,
                  IF lossy
                  THEN from_utf8_lossy(Slice(body, st.pos + 2, BE(Take(body, st, 2))))
                  ELSE Slice(body, st.pos + 2, BE(Take(body, st, 2))),
                  2 + BE(Take(body, st, 2)))

\* variant: any flag above bit 0 selects the 16-byte address
is_ipv6_any_flag(peer_type) == peer_type \div 2 > 0

\* PeerEntry: bit 1 of peer_type selects the address width, bit 0 the AS width
is_ipv6(peer_type) == (peer_type \div 2) % 2 = 1
is_as4(peer_type) == peer_type % 2 = 1

RECURSIVE Run(_, _, _)
RECURSIVE Entries(_, _, _, _, _)

\* variant: an entry that fails to decode is left out of the list
PushOrSkip(st, name, e) ==
    IF e.ok THEN [st EXCEPT !.pos = e.pos, !.env[name] = Append(@, e.env)]
    ELSE st

\* an entry decoded by Entries joins the list, or its error ends the decode
Push(st, name, e) ==
    IF e.ok THEN [st EXCEPT !.pos = e.pos, !.env[name] = Append(@, e.env)]
    ELSE Fail([st EXCEPT !.pos = e.pos], e.kind)

\* for _ in 0..count { entries.push(Entry::parse(stream)?) }
Entries(entry, body, st, count, name) ==
    IF count = 0 \/ ~st.ok THEN st
    ELSE Entries(entry, body,
                 Push(st, name, Run(entry, body, [st EXCEPT !.env = <<>>])),
                 count - 1, name)

\* one read
Step(step, body, st) ==
    CASE step.k = "U" -> ReadUint(body, st, step.name, step.n)
      [] step.k = "B" -> ReadBytes(body, st, step.name, step.n)
      [] step.k = "AFI" -> read_afi(body, st, step.name)
      [] step.k = "IP" -> ReadBytes(body, st, step.name, AFI_size(st.env[step.afi]))
      [] step.k = "RESTAFI" ->
            ReadBytes(body, st, step.name,
                      saturating_sub(step.total,
                                     step.base + AFI_size(st.env[step.afi]) * 2))
      [] step.k = "LP" -> ReadLP(body, st, step.name, FALSE)
      [] step.k = "STR" -> ReadLP(body, st, step.name, TRUE)
      [] step.k = "PFX" ->
            ReadBytes(body, st, step.name, prefix_bytes_needed(st.env[step.len]))
      [] step.k = "FLAGIP" ->
            ReadBytes(body, st, step.name,
                      IF is_ipv6(st.env[step.flags]) THEN 16 ELSE 4)
      [] step.k = "FLAGAS" ->
            ReadUint(body, st, step.name,
                     IF is_as4(st.env[step.flags]) THEN 4 ELSE 2)
      [] step.k = "LIST" ->
            IF ~Has(body, st, 2) THEN Fail(st, "UnexpectedEof")
            ELSE Entries(step.entry, body, Put(st, step.name, <<>>, 2),
                         BE(Take(body, st, 2)), step.name)

Run(steps, body, st) ==
    IF steps = <<>> \/ ~st.ok THEN st
    ELSE Run(Tail(steps), body, Step(steps[1], body, st))

\* the value a family decoder returns: Ok(fields) with the cursor offset, or Err
Finish(tags, st) ==
    IF st.ok THEN POk(tags @@ st.env, st.pos) ELSE PErr(st.kind)

\* variant: bytes left in the body after the last field are an error
DecodeWholeBody(tags, steps, body) ==
    IF Run(steps, body, St0).ok /\ Run(steps, body, St0).pos < Len(body)
    THEN PErr("InvalidData")
    ELSE Finish(tags, Run(steps, body, St0))

Decode(tags, steps, body) == Finish(tags, Run(steps, body, St0))

-----------------------------------------------------------------------------
(* records/rip.rs, records/ospf.rs, records/isis.rs *)

RIP_parse(header, body) ==
    Decode([tag |-> "RIP"],
           <<B("remote", 4), B("local", 4),
             B("message", saturating_sub(header.length, 8))>>, body)

RIPNG_parse(header, body) ==
    Decode([tag |-> "RIPNG"],
           <<B("remote", 16), B("local", 16),
             B("message", saturating_sub(header.length, 32))>>, body)

OSPFv2_parse(header, body) ==
    Decode([tag |-> "OSPFv2"],
           <<B("remote", 4), B("local", 4),
             B("message", saturating_sub(header.length, 8))>>, body)

\* variant: the message length taken from the wire length for both types
OSPFv3_parse_wire_length(tag, header, body) ==
    Decode([tag |-> tag],
           <<AFIF("afi"), IP("remote", "afi"), IP("local", "afi"),
             RESTAFI("message", header.length, 2, "afi")>>, body)

OSPFv3_parse(tag, header, body) ==
    Decode([tag |-> tag],
           <<AFIF("afi"), IP("remote", "afi"), IP("local", "afi"),
             RESTAFI("message",
                     IF header.record_type = 49
                     THEN saturating_sub(header.length, 4) ELSE header.length,
                     2, "afi")>>, body)

isis_parse(tag, header, body) ==
    Decode([tag |-> tag],
           <<B("data", IF header.record_type = 33
                       THEN saturating_sub(header.length, 4)
                       ELSE header.length)>>, body)

-----------------------------------------------------------------------------
(* records/bgp.rs (address width w = 4) and records/bgp4plus.rs (w = 16) *)

LegacyMESSAGE(w, header) ==
    <<U("peer_as", 2), B("peer_ip", w), U("local_as", 2), B("local_ip", w),
      B("message", saturating_sub(header.length, 4 + 2 * w))>>

LegacySTATE_CHANGE(w) ==
    <<U("peer_as", 2), B("peer_ip", w), U("old_state", 2), U("new_state", 2)>>

LegacySYNC(header) ==
    <<U("view_number", 2), B("filename", saturating_sub(header.length, 2))>>

\* the variant a sub_type selects
LegacySub(sub_type) ==
    CASE sub_type = 0 -> "NULL"
      [] sub_type = 1 -> "UPDATE"
      [] sub_type = 2 -> "PREF_UPDATE"
      [] sub_type = 3 -> "STATE_CHANGE"
      [] sub_type = 4 -> "SYNC"
      [] sub_type = 5 -> "OPEN"
      [] sub_type = 6 -> "NOTIFY"
      [] sub_type = 7 -> "KEEPALIVE"
      [] OTHER -> "invalid"

\* BGP::parse (w = 4) and BGP4PLUS::parse (w = 16)
LegacyBGP_parse(tag, w, header, body) ==
    IF LegacySub(header.sub_type) = "invalid" THEN PErr("InvalidData")
    ELSE Decode([tag |-> tag, sub |-> LegacySub(header.sub_type)],
                CASE header.sub_type \in {0, 2} -> <<>>
                  [] header.sub_type = 3 -> LegacySTATE_CHANGE(w)
                  [] header.sub_type = 4 -> LegacySYNC(header)
                  [] OTHER -> LegacyMESSAGE(w, header),
                body)

BGP_parse(header, body) == LegacyBGP_parse("BGP", 4, header, body)

BGP4PLUS_parse(tag, header, body) == LegacyBGP_parse(tag, 16, header, body)

-----------------------------------------------------------------------------
(* records/bgp4mp.rs: asw is the width of the AS fields (2, or 4 for AS4) *)

BGP4MP_common(asw) ==
    <<U("peer_as", asw), U("local_as", asw), U("interface", 2), AFIF("afi"),
      IP("peer_address", "afi"), IP("local_address", "afi")>>

\* STATE_CHANGE::parse (asw = 2), STATE_CHANGE_AS4::parse (asw = 4)
BGP4MP_STATE_CHANGE(asw) ==
    BGP4MP_common(asw) \o <<U("old_state", 2), U("new_state", 2)>>

\* MESSAGE::parse (asw = 2), MESSAGE_AS4::parse (asw = 4)
BGP4MP_MESSAGE(asw, body_length) ==
    BGP4MP_common(asw) \o <<RESTAFI("message", body_length, 2 * asw + 4, "afi")>>

\* SNAPSHOT::parse
BGP4MP_SNAPSHOT(body_length) ==
    <<U("view_number", 2), B("filename", saturating_sub(body_length, 2))>>

\* ENTRY::parse
BGP4MP_ENTRY ==
    <<U("peer_as", 2), U("local_as", 2), U("interface", 2), AFIF("afi_enum"),
      IP("peer_address", "afi_enum"), IP("local_address", "afi_enum"),
      U("view_number", 2), U("status", 2), U("time_last_change", 4),
      AFIF("next_hop_afi"), IP("next_hop", "next_hop_afi"),
      U("afi", 2), U("safi", 1), U("prefix_length", 1),
      PFX("prefix", "prefix_length"), LP("attributes")>>

\* variant: every sub_type taken for a MESSAGE
BGP4MP_SubAny(sub_type) == "MESSAGE"

BGP4MP_Sub(sub_type) ==
    CASE sub_type = 0 -> "STATE_CHANGE"
      [] sub_type = 1 -> "MESSAGE"
      [] sub_type = 2 -> "ENTRY"
      [] sub_type = 3 -> "SNAPSHOT"
      [] sub_type = 4 -> "MESSAGE_AS4"
      [] sub_type = 5 -> "STATE_CHANGE_AS4"
      [] sub_type = 6 -> "MESSAGE_LOCAL"
      [] sub_type = 7 -> "MESSAGE_AS4_LOCAL"
      [] sub_type = 8 -> "MESSAGE_ADDPATH"
      [] sub_type = 9 -> "MESSAGE_AS4_ADDPATH"
      [] sub_type = 10 -> "MESSAGE_LOCAL_ADDPATH"
      [] sub_type = 11 -> "MESSAGE_AS4_LOCAL_ADDPATH"
      [] OTHER -> "invalid"

\* the reads BGP4MP::parse dispatches to
BGP4MP_Reads(sub_type, body_length) ==
    CASE sub_type = 0 -> BGP4MP_STATE_CHANGE(2)
      [] sub_type = 5 -> BGP4MP_STATE_CHANGE(4)
      [] sub_type = 2 -> BGP4MP_ENTRY
      [] sub_type = 3 -> BGP4MP_SNAPSHOT(body_length)
      [] sub_type \in {1, 6, 8, 10} -> BGP4MP_MESSAGE(2, body_length)
      [] OTHER -> BGP4MP_MESSAGE(4, body_length)

\* BGP4MP::parse
BGP4MP_parse(tag, header, body) ==
    IF BGP4MP_Sub(header.sub_type) = "invalid" THEN PErr("InvalidData")
    ELSE Decode([tag |-> tag, sub |-> BGP4MP_Sub(header.sub_type)],
                BGP4MP_Reads(header.sub_type,
                             IF header.record_type = 17
                             THEN saturating_sub(header.length, 4)
                             ELSE header.length),
                body)

-----------------------------------------------------------------------------
(* records/tabledump.rs *)

\* variant: the peer address always read as IPv4
TABLE_DUMP_parse_v4_peer(header, body) ==
    IF header.sub_type \notin {1, 2} THEN PErr("InvalidData")
    ELSE Decode([tag |-> "TABLE_DUMP"],
                <<U("view_number", 2), U("sequence_number", 2),
                  B("prefix", AFI_size(IF header.sub_type = 1 THEN AFI_IPV4 ELSE AFI_IPV6)),
                  U("prefix_length", 1), U("status", 1), U("originated_time", 4),
                  B("peer_address", AFI_size(AFI_IPV4)),
                  U("peer_as", 2), LP("attributes")>>, body)

\* TABLE_DUMP::parse: the address width comes from the sub_type
TABLE_DUMP_parse(header, body) ==
    IF header.sub_type \notin {1, 2} THEN PErr("InvalidData")
    ELSE Decode([tag |-> "TABLE_DUMP"],
                <<U("view_number", 2), U("sequence_number", 2),
                  B("prefix", AFI_size(IF header.sub_type = 1 THEN AFI_IPV4 ELSE AFI_IPV6)),
                  U("prefix_length", 1), U("status", 1), U("originated_time", 4),
                  B("peer_address", AFI_size(IF header.sub_type = 1 THEN AFI_IPV4 ELSE AFI_IPV6)),
                  U("peer_as", 2), LP("attributes")>>, body)

\* PeerEntry::parse
PeerEntry ==
    <<U("peer_type", 1), U("peer_bgp_id", 4),
      FLAGIP("peer_ip_address", "peer_type"), FLAGAS("peer_as", "peer_type")>>

\* RIBEntry::parse
RIBEntry == <<U("peer_index", 2), U("originated_time", 4), LP("attributes")>>

\* variant: the path identifier read after the attribute blob
RIBEntryAddPathLast ==
    <<U("peer_index", 2), U("originated_time", 4), LP("attributes"),
      U("path_identifier", 4)>>

\* RIBEntryAddPath::parse
RIBEntryAddPath ==
    <<U("peer_index", 2), U("originated_time", 4), U("path_identifier", 4),
      LP("attributes")>>

\* PEER_INDEX_TABLE::parse
PEER_INDEX_TABLE ==
    <<U("collector_id", 4), STR("view_name"), LIST("peer_entries", PeerEntry)>>

\* RIB_AFI::parse, and RIB_AFI_ADDPATH::parse with entry = RIBEntryAddPath
RIB_AFI(entry) ==
    <<U("sequence_number", 4), U("prefix_length", 1),
      PFX("prefix", "prefix_length"), LIST("entries", entry)>>

\* RIB_GENERIC::parse, and RIB_GENERIC_ADDPATH::parse with entry = RIBEntryAddPath
RIB_GENERIC(entry) ==
    <<U("sequence_number", 4), AFIF("afi"), U("safi", 1), LP("nlri"),
      LIST("entries", entry)>>

TABLE_DUMP_V2_Sub(sub_type) ==
    CASE sub_type = 1 -> "PEER_INDEX_TABLE"
      [] sub_type = 2 -> "RIB_IPV4_UNICAST"
      [] sub_type = 3 -> "RIB_IPV4_MULTICAST"
      [] sub_type = 4 -> "RIB_IPV6_UNICAST"
      [] sub_type = 5 -> "RIB_IPV6_MULTICAST"
      [] sub_type = 6 -> "RIB_GENERIC"
      [] sub_type = 8 -> "RIB_IPV4_UNICAST_ADDPATH"
      [] sub_type = 9 -> "RIB_IPV4_MULTICAST_ADDPATH"
      [] sub_type = 10 -> "RIB_IPV6_UNICAST_ADDPATH"
      [] sub_type = 11 -> "RIB_IPV6_MULTICAST_ADDPATH"
      [] sub_type = 12 -> "RIB_GENERIC_ADDPATH"
      [] OTHER -> "invalid"

\* the reads TABLE_DUMP_V2::parse dispatches to
TABLE_DUMP_V2_Reads(sub_type) ==
    CASE sub_type = 1 -> PEER_INDEX_TABLE
      [] sub_type \in 2..5 -> RIB_AFI(RIBEntry)
      [] sub_type = 6 -> RIB_GENERIC(RIBEntry)
      [] sub_type \in 8..11 -> RIB_AFI(RIBEntryAddPath)
      [] OTHER -> RIB_GENERIC(RIBEntryAddPath)

\* TABLE_DUMP_V2::parse
TABLE_DUMP_V2_parse(header, body) ==
    IF TABLE_DUMP_V2_Sub(header.sub_type) = "invalid" THEN PErr("InvalidData")
    ELSE Decode([tag |-> "TABLE_DUMP_V2", sub |-> TABLE_DUMP_V2_Sub(header.sub_type)],
                TABLE_DUMP_V2_Reads(header.sub_type), body)

-----------------------------------------------------------------------------
(* lib.rs: the streaming reader *)

\* record_types of the *_ET records
BGP4MP_ET == 17
ISIS_ET == 33
OSPFV3_ET == 49

\* variant: no type carries a microsecond field
never_extended(record_type) == FALSE

is_extended_type(record_type) == record_type \in {BGP4MP_ET, ISIS_ET, OSPFV3_ET}

\* variant: every type code is accepted as a record without a decoded body
parse_any(header, body) == POk([tag |-> "NULL"], 0)

\* parse_record: dispatch on header.record_type over the body just read
parse_record(header, body) ==
    LET t == header.record_type IN
    CASE t = 0 -> POk([tag |-> "NULL"], 0)
      [] t = 1 -> POk([tag |-> "START"], 0)
      [] t = 2 -> POk([tag |-> "DIE"], 0)
      [] t = 3 -> POk([tag |-> "I_AM_DEAD"], 0)
      [] t = 4 -> POk([tag |-> "PEER_DOWN"], 0)
      [] t = 5 -> BGP_parse(header, body)
      [] t = 6 -> RIP_parse(header, body)
      [] t = 7 -> POk([tag |-> "IDRP"], 0)
      [] t = 8 -> RIPNG_parse(header, body)
      [] t = 9 -> BGP4PLUS_parse("BGP4PLUS", header, body)
      [] t = 10 -> BGP4PLUS_parse("BGP4PLUS_01", header, body)
      [] t = 11 -> OSPFv2_parse(header, body)
      [] t = 12 -> TABLE_DUMP_parse(header, body)
      [] t = 13 -> TABLE_DUMP_V2_parse(header, body)
      [] t = 16 -> BGP4MP_parse("BGP4MP", header, body)
      [] t = 17 -> BGP4MP_parse("BGP4MP_ET", header, body)
      [] t = 32 -> isis_parse("ISIS", header, body)
      [] t = 33 -> isis_parse("ISIS_ET", header, body)
      [] t = 48 -> OSPFv3_parse("OSPFv3", header, body)
      [] t = 49 -> OSPFv3_parse("OSPFv3_ET", header, body)
      [] OTHER -> PErr("InvalidData")

NoHeader == [none |-> TRUE]
NoRecord == [tag |-> "none"]

\* Result<Option<(Header, Record)>, Error>, with the stream offset the call left
OkNone(p) == [res |-> "None", kind |-> "", header |-> NoHeader, record |-> NoRecord, pos |-> p]
OkSome(h, r, p) == [res |-> "Some", kind |-> "", header |-> h, record |-> r, pos |-> p]
\* variant: an error returned with the stream where the call found it
ErrRewound(kind, p) ==
    [res |-> "Err", kind |-> kind, header |-> NoHeader, record |-> NoRecord, pos |-> 0]
Err(kind, p) == [res |-> "Err", kind |-> kind, header |-> NoHeader, record |-> NoRecord, pos |-> p]

\* variant: the microsecond field is read but not kept
HeaderNoExtended(hb, extended) ==
    [timestamp |-> BE(Slice(hb, 0, 4)), extended |-> 0,
     record_type |-> BE(Slice(hb, 4, 2)), sub_type |-> BE(Slice(hb, 6, 2)),
     length |-> BE(Slice(hb, 8, 4))]

\* the four header fields, from the 12 bytes of the common header
HeaderFields(hb, extended) ==
    [timestamp |-> BE(Slice(hb, 0, 4)), extended |-> extended,
     record_type |-> BE(Slice(hb, 4, 2)), sub_type |-> BE(Slice(hb, 6, 2)),
     length |-> BE(Slice(hb, 8, 4))]

\* What read and read_with_buffer do with a failed read of the 12 header
\* bytes: every UnexpectedEof becomes Ok(None).
HeaderEof(h) == OkNone(h.pos)

\* variant: a short microsecond field or body reported as a clean end
ShortReadAsEnd(r) == OkNone(r.pos)

\* What read and read_with_buffer do with a failed read_exact of the
\* microsecond field or of the body: the ? operator returns the error.
ShortRead(r) == Err("UnexpectedEof", r.pos)

\* variant: the decoder reads from the stream itself, not from a body read
\* beforehand, and the stream is moved past the body only after a success
read_from_stream(s, p) ==
    LET h == read_exact(s, p, 12) IN
    IF ~h.ok THEN HeaderEof(h)
    ELSE LET h0 == HeaderFields(h.bytes, 0)
             ext == is_extended_type(h0.record_type)
             m == IF ext THEN read_exact(s, h.pos, 4)
                         ELSE [ok |-> TRUE, pos |-> h.pos, bytes |-> <<>>]
         IN
    IF ~m.ok THEN ShortRead(m)
    ELSE LET header == HeaderFields(h.bytes, IF ext THEN BE(m.bytes) ELSE 0)
             body_length == IF ext THEN saturating_sub(header.length, 4)
                                   ELSE header.length
             r == parse_record(header, SubSeq(s, m.pos + 1, Len(s)))
         IN
         IF r.ok THEN OkSome(header, r.val, m.pos + body_length) ELSE Err(r.kind, m.pos)

\* read(stream) with the stream at offset p
read(s, p) ==
    LET h == read_exact(s, p, 12) IN
    IF ~h.ok THEN HeaderEof(h)
    ELSE LET h0 == HeaderFields(h.bytes, 0)
             ext == is_extended_type(h0.record_type)
             m == IF ext THEN read_exact(s, h.pos, 4)
                         ELSE [ok |-> TRUE, pos |-> h.pos, bytes |-> <<>>]
         IN
    IF ~m.ok THEN ShortRead(m)
    ELSE LET header == HeaderFields(h.bytes, IF ext THEN BE(m.bytes) ELSE 0)
             body_length == IF ext THEN saturating_sub(header.length, 4)
                                   ELSE header.length
             b == read_exact(s, m.pos, body_length)
         IN
    IF ~b.ok THEN ShortRead(b)
    ELSE LET r == parse_record(header, b.bytes) IN
         IF r.ok THEN OkSome(header, r.val, b.pos) ELSE Err(r.kind, b.pos)

\* a byte of the Vec's allocation that no read has written
Uninit == 0 - 1

\* Vec<u8>: capacity, logical length, and the bytes of the allocation
Vec(cap, len, mem) == [cap |-> cap, len |-> len, mem |-> mem]

\* the logical contents of a Vec
VecBytes(v) == SubSeq(v.mem, 1, v.len)

\* variant: a fresh allocation of the requested size on every call
ReallocBuffer(buf, body_len, slack) ==
    Vec(body_len + slack, body_len, [i \in 1..(body_len + slack) |-> Uninit])

\* variant: the buffer is handed to read_exact as the caller left it
KeepBuffer(buf, body_len, slack) == buf

\* The resize step of read_with_buffer: set_len within the capacity, or
\* clear + reserve + set_len (slack: what reserve allocates beyond the request).
ResizeBuffer(buf, body_len, slack) ==
    IF buf.cap >= body_len
    THEN Vec(buf.cap, body_len, buf.mem)
    ELSE Vec(body_len + slack, body_len, [i \in 1..(body_len + slack) |-> Uninit])

\* stream.read_exact(body_buf): the bytes land in the buffer; on a short read
\* the contents are unspecified (written: how many bytes the reader copied
\* before it failed).
FillBuffer(buf, bytes) ==
    Vec(buf.cap, buf.len,
        [i \in 1..buf.cap |-> IF i <= Len(bytes) THEN bytes[i] ELSE buf.mem[i]])

\* read_with_buffer(stream, body_buf) with the stream at offset p
read_with_buffer(s, p, buf, slack, partial) ==
    LET h == read_exact(s, p, 12) IN
    IF ~h.ok THEN [out |-> HeaderEof(h), buf |-> buf]
    ELSE LET h0 == HeaderFields(h.bytes, 0)
             ext == is_extended_type(h0.record_type)
             m == IF ext THEN read_exact(s, h.pos, 4)
                         ELSE [ok |-> TRUE, pos |-> h.pos, bytes |-> <<>>]
         IN
    IF ~m.ok THEN [out |-> ShortRead(m), buf |-> buf]
    ELSE LET header == HeaderFields(h.bytes, IF ext THEN BE(m.bytes) ELSE 0)
             body_length == IF ext THEN saturating_sub(header.length, 4)
                                   ELSE header.length
             sized == ResizeBuffer(buf, body_length, slack)
             b == read_exact(s, m.pos, body_length)
         IN
    IF ~b.ok
    THEN [out |-> ShortRead(b),
          buf |-> IF partial
                  THEN FillBuffer(sized, Slice(s, m.pos, Len(s) - m.pos))
                  ELSE sized]
    ELSE LET filled == FillBuffer(sized, b.bytes)
             r == parse_record(header, VecBytes(filled))
         IN [out |-> IF r.ok THEN OkSome(header, r.val, b.pos)
                              ELSE Err(r.kind, b.pos),
             buf |-> filled]

\* Option<Header> outcomes of read_header_only
HOkSome(h, p) == [res |-> "Some", kind |-> "", header |-> h, record |-> NoRecord, pos |-> p]

\* variant: the seek stops at the end of the source
seek_clamped(p, n) == Min(p + n, Len(stream))

\* variant: the body is left where it is
seek_none(p, n) == p

\* stream.seek(SeekFrom::Current(n)) with the stream at offset p
seek_current(p, n) == p + n

\* read_header_only(stream) with the seekable stream at offset p
read_header_only(s, p) ==
    LET ts == read_exact(s, p, 4) IN
    IF ~ts.ok THEN OkNone(ts.pos)
    ELSE LET rest == read_exact(s, ts.pos, 8) IN
    IF ~rest.ok THEN Err("UnexpectedEof", rest.pos)
    ELSE LET h0 == HeaderFields(ts.bytes \o rest.bytes, 0)
             ext == is_extended_type(h0.record_type)
             m == IF ext THEN read_exact(s, rest.pos, 4)
                         ELSE [ok |-> TRUE, pos |-> rest.pos, bytes |-> <<>>]
         IN
    IF ~m.ok THEN Err("UnexpectedEof", m.pos)
    ELSE LET header == HeaderFields(ts.bytes \o rest.bytes,
                                    IF ext THEN BE(m.bytes) ELSE 0)
             skip_len == IF ext THEN saturating_sub(header.length, 4)
                                ELSE header.length
         IN HOkSome(header, seek_current(m.pos, skip_len))

-----------------------------------------------------------------------------
(* Input streams: MRT records in wire format (spec section 6) *)

U16(v) == <<v \div 256, v % 256>>
U32(v) == U16(v \div 65536) \o U16(v % 65536)

\* A record to put on the wire: the header fields, the bytes that follow the
\* common header (microseconds, if any, and body), and the Record value a
\* decoder is expected to return (NoRecord when none is).
Rec(ts, ty, sub, len, rest, want) ==
    [ts |-> ts, ty |-> ty, sub |-> sub, len |-> len, rest |-> rest, want |-> want]

Wire(e) == U32(e.ts) \o U16(e.ty) \o U16(e.sub) \o U32(e.len) \o e.rest

\* well-formed records of supported types
RecNULL == Rec(1, 0, 0, 0, <<>>, [tag |-> "NULL"])
RecSTART == Rec(2, 1, 0, 2, <<5, 6>>, [tag |-> "START"])
RecRIP == Rec(3, 6, 0, 9, <<10, 0, 0, 1, 10, 0, 0, 2, 7>>,
              [tag |-> "RIP", remote |-> <<10, 0, 0, 1>>, local |-> <<10, 0, 0, 2>>,
               message |-> <<7>>])
RecISIS_ET == Rec(4, 33, 0, 5, <<0, 0, 0, 9, 42>>, [tag |-> "ISIS_ET", data |-> <<42>>])
WellFormed == {RecNULL, RecSTART, RecRIP, RecISIS_ET}

\* a well-framed record of an unassigned type
RecUnknownType == Rec(5, 255, 0, 1, <<8>>, NoRecord)

Catalog == WellFormed \cup {RecUnknownType}

RECURSIVE ConcatWire(_)
ConcatWire(recs) == IF recs = <<>> THEN <<>> ELSE Wire(recs[1]) \o ConcatWire(Tail(recs))

RecSeqs(S) == UNION {[1..n -> S] : n \in 0..MaxRecs}

\* the streams made of recs: whole, or with the last record cut short by
\* some of its bytes
Cuts(recs) ==
    {ConcatWire(recs)} \cup
    (IF recs = <<>> THEN {}
     ELSE {SubSeq(ConcatWire(recs), 1, Len(ConcatWire(recs)) - cut) :
             cut \in 1..(Len(Wire(recs[Len(recs)])) - 1)})

\* caller buffers: Vec::new(), and a Vec used before (capacity 4, two bytes in it)
Buffers == {Vec(0, 0, <<>>), Vec(4, 2, <<238, 238, Uninit, Uninit>>)}

-----------------------------------------------------------------------------
(* The streaming reader as a state machine: three streams over the same     *)
(* bytes, one per entry point, each called up to maxcalls times.            *)

\* a queue item or channel message that is Option::None / Some(bytes)
None == [some |-> FALSE, bytes |-> <<>>]
Some(bytes) == [some |-> TRUE, bytes |-> bytes]

\* no read call has returned yet
NoRet == [kind |-> "none", n |-> 0]

\* the read-ahead reader is not in use
RAIdle ==
    /\ file = <<>> /\ chunk_size = 0 /\ queue_depth = 0 /\ fpos = 0
    /\ ppc = "done" /\ pitem = None /\ perr = FALSE /\ queue = <<>>
    /\ rxAlive = FALSE /\ txAlive = FALSE /\ current_buf = <<>> /\ pos = 0
    /\ cpc = "dropped" /\ req = 0 /\ ret = NoRet /\ delivered = <<>>
    /\ gotNone = FALSE /\ nread = 0 /\ ntaken = 0

\* the three streams at offset 0, no call made
DecStart ==
    /\ posR = 0 /\ outR = <<>>
    /\ posB = 0 /\ outB = <<>>
    /\ body_buf \in Buffers
    /\ posH = 0 /\ outH = <<>>

Init ==
    /\ input \in RecSeqs(Catalog)
    /\ stream \in Cuts(input)
    /\ maxcalls = Len(input) + 1
    /\ DecStart
    /\ RAIdle

\* one call of read
Read ==
    /\ Len(outR) < maxcalls
    /\ LET o == read(stream, posR) IN
         /\ outR' = Append(outR, o)
         /\ posR' = o.pos
    /\ UNCHANGED <<input, stream, maxcalls, posB, outB, body_buf, posH, outH, raVars>>

\* one call of read_with_buffer on the caller's buffer
ReadWithBuffer ==
    /\ Len(outB) < maxcalls
    /\ \E slack \in 0..MaxSlack, partial \in BOOLEAN :
         LET r == read_with_buffer(stream, posB, body_buf, slack, partial) IN
           /\ outB' = Append(outB, r.out)
           /\ posB' = r.out.pos
           /\ body_buf' = r.buf
    /\ UNCHANGED <<input, stream, maxcalls, posR, outR, posH, outH, raVars>>

\* one call of read_header_only
ReadHeaderOnly ==
    /\ Len(outH) < maxcalls
    /\ LET o == read_header_only(stream, posH) IN
         /\ outH' = Append(outH, o)
         /\ posH' = o.pos
    /\ UNCHANGED <<input, stream, maxcalls, posR, outR, posB, outB, body_buf, raVars>>

Next == Read \/ ReadWithBuffer \/ ReadHeaderOnly

Spec == Init /\ [][Next]_vars

-----------------------------------------------------------------------------
(* The same reader on streams of one complete record whose header fields    *)
(* range over every type code up to MaxType (and the largest u8 and u16     *)
(* codes), every subtype up to MaxSub, and a few bodies.                    *)

MaxType == 50
MaxSub == 1

RecTypes == 0..MaxType \cup {255, 65535}

\* what follows the common header: nothing, one byte, five bytes
RecBodies == {<<>>, <<7>>, <<0, 0, 0, 9, 42>>}

InitRec ==
    /\ \E ty \in RecTypes, sub \in 0..MaxSub, rest \in RecBodies :
         input = <<Rec(7, ty, sub, Len(rest), rest, NoRecord)>>
    /\ stream = ConcatWire(input)
    /\ maxcalls = 2
    /\ DecStart
    /\ RAIdle

SpecRec == InitRec /\ [][Next]_vars

-----------------------------------------------------------------------------
(* Properties of the streaming reader *)

\* the stream offset at which the k-th call recorded in out started
PosBefore(out, k) == IF k = 1 THEN 0 ELSE out[k - 1].pos

\* bytes of the stream left when the k-th call recorded in out started
Avail(out, k) == saturating_sub(Len(stream), PosBefore(out, k))

\* the Header a record of the catalog carries on the wire
WireHeader(e) ==
    [timestamp |-> e.ts,
     extended |-> IF e.want.tag \in {"BGP4MP_ET", "ISIS_ET", "OSPFv3_ET"}
                  THEN BE(Slice(e.rest, 0, 4)) ELSE 0,
     record_type |-> e.ty, sub_type |-> e.sub, length |-> e.len]

\* the offset just after the k-th record of recs
OffsetAfter(recs, k) == Len(ConcatWire(SubSeq(recs, 1, k)))

\* C1: on the concatenation of N well-formed supported records, the k-th call
\* of read (k <= N) returns Ok(Some) with the k-th record's header and body,
\* and call N+1 returns Ok(None).
C1_RecordsInOrderThenNone ==
    (/\ \A i \in 1..Len(input) : input[i] \in WellFormed
     /\ stream = ConcatWire(input))
    => \A k \in 1..Len(outR) :
          /\ k <= Len(input) =>
               outR[k] = OkSome(WireHeader(input[k]), input[k].want,
                                OffsetAfter(input, k))
          /\ k = Len(input) + 1 => outR[k] = OkNone(Len(stream))

\* two records, the first with an extended timestamp, all three calls made
C1_Witness ==
    /\ stream = ConcatWire(<<RecISIS_ET, RecRIP>>)
    /\ Len(outR) = 3
    /\ outR[1].res = "Some" /\ outR[2].res = "Some" /\ outR[3].res = "None"

\* Ok(None) comes only from a call that found the source exhausted
NoneOnlyAtEnd(out) ==
    \A k \in 1..Len(out) : out[k].res = "None" => Avail(out, k) = 0

\* a call that finds 1 to 11 bytes left returns an error
MidHeaderIsError(out) ==
    \A k \in 1..Len(out) : Avail(out, k) \in 1..11 => out[k].res = "Err"

\* C2: read, read_with_buffer and read_header_only return Ok(None) only when
\* the source is exhausted with no byte of the next header consumed; a source
\* that ends 1 to 11 bytes into the common header makes the call return an
\* error.
C2_NoneOnlyAtRecordBoundary ==
    /\ NoneOnlyAtEnd(outR) /\ MidHeaderIsError(outR)
    /\ NoneOnlyAtEnd(outB) /\ MidHeaderIsError(outB)
    /\ NoneOnlyAtEnd(outH) /\ MidHeaderIsError(outH)

\* what does hold of read_header_only: a source that ends 4 to 11 bytes into
\* the header is an error (its first 4 bytes are read on their own)
C2_HeaderOnlyAfterTimestamp ==
    \A k \in 1..Len(outH) : Avail(outH, k) \in 4..11 => outH[k].res = "Err"

\* the bytes a record needs after its common header at offset p: the
\* microsecond field of an extended-timestamp type, and the body
NeedAfterHeader(s, p) ==
    LET ty == BE(Slice(s, p + 4, 2))
        len == BE(Slice(s, p + 8, 4))
    IN IF ty \in {17, 33, 49} THEN 4 + (IF len > 4 THEN len - 4 ELSE 0) ELSE len

\* the k-th call recorded in out got a whole common header and then too few bytes
ShortAfterHeader(out, k) ==
    /\ Avail(out, k) >= 12
    /\ Avail(out, k) < 12 + NeedAfterHeader(stream, PosBefore(out, k))

\* C3: when the source ends after a complete 12-byte header but before the
\* microsecond field or the body is complete, read and read_with_buffer
\* return an error, never Ok(None) and never Ok(Some).
C3_ShortRecordIsError ==
    /\ \A k \in 1..Len(outR) : ShortAfterHeader(outR, k) => outR[k].res = "Err"
    /\ \A k \in 1..Len(outB) : ShortAfterHeader(outB, k) => outB[k].res = "Err"

\* a first record decoded, then both readers met a source that ends inside
\* the microsecond field of the second
C3_Witness ==
    \E k \in 2..Min(Len(outR), Len(outB)) :
        /\ ShortAfterHeader(outR, k) /\ outR[k].res = "Err"
        /\ ShortAfterHeader(outB, k) /\ outB[k].res = "Err"
        /\ BE(Slice(stream, PosBefore(outR, k) + 4, 2)) = 33
        /\ Avail(outR, k) \in 13..15

\* C9: the k-th call of read_with_buffer returns what the k-th call of read
\* returns on the same bytes (same Header and Record, same Ok(None), same
\* error) and leaves the stream at the same offset, whatever the buffer held.
C9_BufferedEqualsAllocating ==
    \A k \in 1..Min(Len(outR), Len(outB)) : outB[k] = outR[k]

\* a used buffer that grew for a 9-byte body and was then reused for a 1-byte one
C9_Witness ==
    /\ stream = ConcatWire(<<RecRIP, RecISIS_ET>>)
    /\ Len(outR) = 3 /\ Len(outB) = 3
    /\ outB[1].record = RecRIP.want /\ outB[2].record = RecISIS_ET.want
    /\ body_buf.cap >= 9 /\ body_buf.len = 1 /\ body_buf.mem[2] = 0

\* the 20 assigned record type codes
Assigned == (0..13) \cup {16, 17, 32, 33, 48, 49}

\* C10: a record whose record_type is not one of the 20 assigned codes makes
\* read return an InvalidData error and no Record.
C10_UnassignedTypeIsInvalidData ==
    \A k \in 1..Len(outR) :
        (/\ PosBefore(outR, k) = 0
         /\ input[1].ty \notin Assigned)
        => /\ outR[k].res = "Err" /\ outR[k].kind = "InvalidData"
           /\ outR[k].record = NoRecord

\* read has been called on a record of type 14 with a body
C10_Witness ==
    /\ input[1].ty = 14 /\ input[1].rest = <<0, 0, 0, 9, 42>>
    /\ Len(outR) >= 1 /\ outR[1].kind = "InvalidData" /\ outR[1].pos = 17

-----------------------------------------------------------------------------
(* readahead.rs: the producer thread, the bounded channel, the consumer *)

\* Result<usize> of a read call
IoOk(n) == [kind |-> "Ok", n |-> n]
IoErr == [kind |-> "Err", n |-> 0]

\* File::read into a buffer of `size` bytes at offset p: Ok(0) at the end of
\* the file or for an empty buffer, else any count from 1 to what is left
\* and fits (a read may be short), or an I/O error.
file_read(f, p, size) ==
    {IoOk(n) : n \in (IF size = 0 \/ p >= Len(f) THEN {0}
                             ELSE 1..Min(size, Len(f) - p))}
    \cup {IoErr}

\* variant: the chunk is sent at its full chunk_size, zero-filled
ChunkUntruncated(f, p, n, size) == Slice(f, p, n) \o [i \in 1..(size - n) |-> 0]

\* vec![0u8; chunk_size], file.read into it, buf.truncate(n)
Chunk(f, p, n, size) == Slice(f, p, n)

\* variant: a read error sends an empty chunk
ErrItemEmptyChunk == Some(<<>>)

\* the item the producer sends when file.read returned Err
ErrItem == None

\* variant: send never notices that the Receiver is gone
send_ignoring_drop(q, depth, rx) == IF Len(q) < depth THEN "ok" ELSE "block"

\* variant: send never waits for room
send_unbounded(q, depth, rx) == IF rx THEN "ok" ELSE "err"

\* SyncSender::send on the channel made by sync_channel(depth): an error once
\* the Receiver is dropped, the item queued while there is room, else the
\* sender blocks (with depth 0 it blocks until a receiver takes the item)
send(q, depth, rx) ==
    IF ~rx THEN "err" ELSE IF Len(q) < depth THEN "ok" ELSE "block"

\* Receiver::recv: the oldest queued item, an error once the queue is empty
\* and the sender is dropped, else the receiver blocks
recv(q, tx) ==
    IF q # <<>> THEN [kind |-> "item", item |-> Head(q)]
    ELSE IF ~tx THEN [kind |-> "disconnected", item |-> None]
    ELSE [kind |-> "block", item |-> None]

\* variant: read reports an error when fill_buffer finds nothing
ReadAtEndErr == IoErr

\* Read::read when fill_buffer returned false
ReadAtEnd == IoOk(0)

\* variant: read copies all that current_buf still holds
to_copy_available(len, cb, ps) == Len(cb) - ps

\* to_copy of Read::read: the destination length or what current_buf still holds
to_copy(len, cb, ps) == Min(len, Len(cb) - ps)

\* the file contents: prefixes of a record without a body followed by one with
FileBytes == Wire(RecNULL) \o Wire(RecSTART)

DecIdle ==
    /\ input = <<>> /\ stream = <<>> /\ maxcalls = 0
    /\ posR = 0 /\ outR = <<>> /\ posB = 0 /\ outB = <<>>
    /\ body_buf = Vec(0, 0, <<>>) /\ posH = 0 /\ outH = <<>>

\* from_file(file, chunk_size, queue_depth): the thread is spawned, the
\* reader holds an empty current_buf at pos 0
InitRA ==
    /\ \E n \in 0..MaxFile : file = SubSeq(FileBytes, 1, n)
    /\ chunk_size \in 0..MaxChunk
    /\ queue_depth \in 0..MaxDepth
    /\ fpos = 0 /\ ppc = "read" /\ pitem = None /\ perr = FALSE
    /\ queue = <<>> /\ rxAlive = TRUE /\ txAlive = TRUE
    /\ current_buf = <<>> /\ pos = 0 /\ cpc = "idle" /\ req = 0
    /\ ret = NoRet /\ delivered = <<>> /\ gotNone = FALSE
    /\ nread = 0 /\ ntaken = 0
    /\ DecIdle

\* producer: file.read returned Ok(n) with n > 0; the chunk is ready to send
ReadChunk ==
    /\ ppc = "read"
    /\ \E r \in file_read(file, fpos, chunk_size) :
         /\ r.kind = "Ok" /\ r.n > 0
         /\ pitem' = Some(Chunk(file, fpos, r.n, chunk_size))
         /\ fpos' = fpos + r.n
    /\ nread' = nread + 1
    /\ ppc' = "send"
    /\ UNCHANGED <<decVars, file, chunk_size, queue_depth, perr, queue, rxAlive,
                   txAlive, current_buf, pos, cpc, req, ret, delivered, gotNone,
                   ntaken>>

\* producer: file.read returned Ok(0); None is ready to send, then break
ReadEof ==
    /\ ppc = "read"
    /\ IoOk(0) \in file_read(file, fpos, chunk_size)
    /\ pitem' = None
    /\ ppc' = "sendlast"
    /\ UNCHANGED <<decVars, file, chunk_size, queue_depth, fpos, perr, queue,
                   rxAlive, txAlive, current_buf, pos, cpc, req, ret, delivered,
                   gotNone, nread, ntaken>>

\* producer: file.read returned Err; None is ready to send, then break
ReadErr ==
    /\ ppc = "read"
    /\ IoErr \in file_read(file, fpos, chunk_size)
    /\ pitem' = ErrItem
    /\ perr' = TRUE
    /\ ppc' = "sendlast"
    /\ UNCHANGED <<decVars, file, chunk_size, queue_depth, fpos, queue, rxAlive,
                   txAlive, current_buf, pos, cpc, req, ret, delivered, gotNone,
                   nread, ntaken>>

\* variant: the producer loop goes on after sending the terminal item
AfterSendNoBreak(pc) == "read"

\* where the producer goes after a send that succeeded
AfterSend(pc) == IF pc = "send" THEN "read" ELSE "exit"

\* producer: send put the item in the queue
SendOk ==
    /\ ppc \in {"send", "sendlast"}
    /\ send(queue, queue_depth, rxAlive) = "ok"
    /\ queue' = Append(queue, pitem)
    /\ ppc' = AfterSend(ppc)
    /\ UNCHANGED <<decVars, file, chunk_size, queue_depth, fpos, pitem, perr,
                   rxAlive, txAlive, current_buf, pos, cpc, req, ret, delivered,
                   gotNone, nread, ntaken>>

\* producer: send failed because the Receiver is dropped; break
SendErr ==
    /\ ppc \in {"send", "sendlast"}
    /\ send(queue, queue_depth, rxAlive) = "err"
    /\ ppc' = "exit"
    /\ UNCHANGED <<decVars, file, chunk_size, queue_depth, fpos, pitem, perr,
                   queue, rxAlive, txAlive, current_buf, pos, cpc, req, ret,
                   delivered, gotNone, nread, ntaken>>

\* producer: the thread's closure returns and drops the SyncSender
ProducerExit ==
    /\ ppc = "exit"
    /\ ppc' = "done"
    /\ txAlive' = FALSE
    /\ UNCHANGED <<decVars, file, chunk_size, queue_depth, fpos, pitem, perr,
                   queue, rxAlive, current_buf, pos, cpc, req, ret, delivered,
                   gotNone, nread, ntaken>>

\* consumer: read(buf) with bytes left in current_buf copies and returns
ReadFromBuf ==
    /\ cpc = "idle"
    /\ pos < Len(current_buf)
    /\ \E len \in 0..MaxReq :
         /\ req' = len
         /\ ret' = IoOk(to_copy(len, current_buf, pos))
         /\ delivered' = delivered \o Slice(current_buf, pos, to_copy(len, current_buf, pos))
         /\ pos' = pos + to_copy(len, current_buf, pos)
    /\ UNCHANGED <<decVars, file, chunk_size, queue_depth, fpos, ppc, pitem, perr,
                   queue, rxAlive, txAlive, current_buf, cpc, gotNone, nread,
                   ntaken>>

\* consumer: read(buf) with current_buf used up enters receiver.recv()
ReadWait ==
    /\ cpc = "idle"
    /\ pos >= Len(current_buf)
    /\ \E len \in 0..MaxReq : req' = len
    /\ cpc' = "recv"
    /\ UNCHANGED <<decVars, file, chunk_size, queue_depth, fpos, ppc, pitem, perr,
                   queue, rxAlive, txAlive, current_buf, pos, ret, delivered,
                   gotNone, nread, ntaken>>

\* fill_buffer and the rest of read once recv returned Ok(item)
Receive(item) ==
    IF item.some
    THEN /\ current_buf' = item.bytes
         /\ pos' = to_copy(req, item.bytes, 0)
         /\ ret' = IoOk(to_copy(req, item.bytes, 0))
         /\ delivered' = delivered \o Slice(item.bytes, 0, to_copy(req, item.bytes, 0))
         /\ ntaken' = ntaken + 1
         /\ UNCHANGED gotNone
    ELSE /\ ret' = ReadAtEnd
         /\ gotNone' = TRUE
         /\ UNCHANGED <<current_buf, pos, delivered, ntaken>>

\* consumer: recv returns the oldest queued item
RecvItem ==
    /\ cpc = "recv"
    /\ recv(queue, txAlive).kind = "item"
    /\ Receive(recv(queue, txAlive).item)
    /\ queue' = Tail(queue)
    /\ cpc' = "idle"
    /\ UNCHANGED <<decVars, file, chunk_size, queue_depth, fpos, ppc, pitem, perr,
                   rxAlive, txAlive, req, nread>>

\* sync_channel(0): a blocked send hands its item to a blocked recv
Rendezvous ==
    /\ queue_depth = 0
    /\ cpc = "recv" /\ rxAlive
    /\ ppc \in {"send", "sendlast"}
    /\ queue = <<>>
    /\ Receive(pitem)
    /\ ppc' = AfterSend(ppc)
    /\ cpc' = "idle"
    /\ UNCHANGED <<decVars, file, chunk_size, queue_depth, fpos, pitem, perr,
                   queue, rxAlive, txAlive, req, nread>>

\* consumer: recv returns Err (queue empty, sender dropped); read returns Ok(0)
RecvDisconnected ==
    /\ cpc = "recv"
    /\ recv(queue, txAlive).kind = "disconnected"
    /\ ret' = ReadAtEnd
    /\ cpc' = "idle"
    /\ UNCHANGED <<decVars, file, chunk_size, queue_depth, fpos, ppc, pitem, perr,
                   queue, rxAlive, txAlive, current_buf, pos, req, delivered,
                   gotNone, nread, ntaken>>

\* the ReadAheadReader is dropped between two reads: the Receiver goes, with
\* what the queue held; the JoinHandle is dropped without a join
Drop ==
    /\ cpc = "idle"
    /\ cpc' = "dropped"
    /\ rxAlive' = FALSE
    /\ queue' = <<>>
    /\ UNCHANGED <<decVars, file, chunk_size, queue_depth, fpos, ppc, pitem, perr,
                   txAlive, current_buf, pos, req, ret, delivered, gotNone, nread,
                   ntaken>>

Producer == ReadChunk \/ ReadEof \/ ReadErr \/ SendOk \/ SendErr \/ ProducerExit
Channel == RecvItem \/ Rendezvous \/ RecvDisconnected
Consumer == ReadFromBuf \/ ReadWait \/ Drop

NextRA == Producer \/ Channel \/ Consumer

SpecRA == InitRA /\ [][NextRA]_vars

\* the producer thread is scheduled, file.read returns, and a blocked recv or
\* send is woken when it can complete
SpecRALive == SpecRA /\ WF_vars(Producer) /\ WF_vars(Channel)

-----------------------------------------------------------------------------
(* Properties of the read-ahead reader *)

IsPrefix(a, b) == Len(a) <= Len(b) /\ a = SubSeq(b, 1, Len(a))

\* the outcomes of calling read on the bytes s from offset p until it
\* returns something other than a record
RECURSIVE ReadAll(_, _)
ReadAll(s, p) ==
    IF read(s, p).res = "Some"
    THEN <<read(s, p)>> \o ReadAll(s, read(s, p).pos)
    ELSE <<read(s, p)>>

\* the last read call to return was given a non-empty destination and
\* returned Ok(0)
ZeroLengthRead == cpc # "recv" /\ req > 0 /\ ret = IoOk(0)

\* C4: the bytes ReadAheadReader::read has returned are always a prefix of
\* the file, and for chunk_size >= 1, when no file.read failed, they are the
\* whole file once a read returns zero bytes; decoding them gives what
\* decoding the file gives.
C4_SameBytesAsFile ==
    /\ IsPrefix(delivered, file)
    /\ (chunk_size >= 1 /\ ~perr /\ ZeroLengthRead)
       => /\ delivered = file
          /\ ReadAll(delivered, 0) = ReadAll(file, 0)

\* a 12-byte record read in 2-byte chunks (the size a multiple of chunk_size,
\* the record across chunk boundaries) through a one-slot queue, to the end
C4_Witness ==
    /\ Len(file) = 12 /\ chunk_size = 2 /\ queue_depth = 1
    /\ ~perr /\ ZeroLengthRead
    /\ delivered = file /\ ntaken = 6
    /\ ReadAll(delivered, 0)[1].res = "Some"

\* C5: once the ReadAheadReader is dropped, the producer thread terminates.
C5_DropUnblocksProducer == (~rxAlive) ~> (ppc = "done")

\* the producer had filled the queue and held one more chunk when its send
\* failed, and it has terminated with part of the file unread
C5_Witness ==
    /\ cpc = "dropped" /\ ppc = "done"
    /\ queue_depth = 2 /\ nread = ntaken + queue_depth + 1
    /\ fpos < Len(file)

\* C6: the queue never holds more than queue_depth items, and the producer
\* has never read more than queue_depth + 1 chunks beyond those taken.
C6_BoundedReadAhead ==
    /\ Len(queue) <= queue_depth
    /\ nread <= ntaken + queue_depth + 1

\* the queue is full and the producer is blocked sending one more chunk
C6_Witness ==
    /\ queue_depth = 2 /\ Len(queue) = 2 /\ ppc = "send" /\ rxAlive
    /\ nread = ntaken + 3 /\ ntaken >= 1

\* C7: once the terminal item has been received, every read returns Ok(0)
\* and delivers nothing, and a read that waits in recv returns.
C7_EofIsSticky ==
    /\ [][gotNone => (ret' = IoOk(0) /\ delivered' = delivered)]_vars
    /\ (gotNone /\ cpc = "recv") ~> (cpc = "idle")

\* a read called after the terminal item was received, waiting in recv
C7_Witness ==
    /\ gotNone /\ cpc = "recv" /\ req > 0 /\ Len(delivered) > 0

\* C8: a failed file.read makes the producer send None and stop, as the end
\* of the file does; no read of the consumer returns Err; and after the
\* terminal item the consumer has the bytes of the chunks read before it
\* and gets Ok(0), whether the file ended or the read failed.
C8_ErrorLooksLikeEof ==
    /\ ret.kind # "Err"
    /\ ppc = "sendlast" => pitem = None
    /\ perr => ppc \in {"sendlast", "exit", "done"}
    /\ (gotNone /\ cpc # "recv")
       => /\ ret = IoOk(0)
          /\ delivered = SubSeq(file, 1, fpos)

\* a read failed after part of the file; the consumer got that part, then Ok(0)
C8_Witness ==
    /\ perr /\ gotNone /\ cpc = "idle" /\ ret = IoOk(0)
    /\ 0 < fpos /\ fpos < Len(file) /\ Len(delivered) = fpos


-----------------------------------------------------------------------------
(* The reader on streams of one complete record of every assigned type,     *)
(* every subtype up to MaxFamSub and every wire length up to MaxBody, whose *)
(* body holds the same 16-bit value at every even offset, so that whichever *)
(* field a family reads as an AFI selector takes each value up to MaxAfi.   *)

MaxFamSub == 13
MaxBody == 45
MaxAfi == 3

\* n body bytes in which every big-endian u16 at an even offset is a
Pattern(n, a) == [i \in 1..n |-> IF i % 2 = 0 THEN a ELSE 0]

\* what follows the common header of a record of type ty and wire length len:
\* the microsecond field of an extended-timestamp type, then the body
FamRest(ty, len, a) ==
    IF is_extended_type(ty)
    THEN U32(9) \o Pattern(saturating_sub(len, 4), a)
    ELSE Pattern(len, a)

InitFam ==
    /\ \E ty \in Assigned, sub \in 0..MaxFamSub, len \in 0..MaxBody, a \in 0..MaxAfi :
         input = <<Rec(7, ty, sub, len, FamRest(ty, len, a), NoRecord)>>
    /\ stream = ConcatWire(input)
    /\ maxcalls = 1
    /\ posR = 0 /\ outR = <<>>
    /\ posB = 0 /\ outB = <<>>
    /\ body_buf = Vec(0, 0, <<>>)
    /\ posH = 0 /\ outH = <<>>
    /\ RAIdle

NextFam == Read \/ ReadWithBuffer

SpecFam == InitFam /\ [][NextFam]_vars

-----------------------------------------------------------------------------
(* Properties of the reader on one record of an assigned type *)

\* the record on the stream
TheRec == input[1]

\* the calls made so far by the allocating and the buffer-reusing reader
Outcomes == {outR[k] : k \in 1..Len(outR)} \cup {outB[k] : k \in 1..Len(outB)}

\* the families whose decoder dispatches on sub_type, and the subtypes each decodes
Subtyped == {5, 9, 10, 12, 13, 16, 17}
SubtypeTable(ty) ==
    CASE ty \in {5, 9, 10} -> 0..7
      [] ty = 12 -> {1, 2}
      [] ty = 13 -> (1..6) \cup (8..12)
      [] ty \in {16, 17} -> 0..11

\* a decode call that failed as unsupported, with no record
Unsupported(o) == o.res = "Err" /\ o.kind = "InvalidData" /\ o.record = NoRecord

\* what read returns for the same record with sub_type 0
WithSubtype0 == read(Wire([TheRec EXCEPT !.sub = 0]), 0)

\* C11 (as amended): a sub_type outside the family's table is an InvalidData
\* error with no record for BGP, BGP4PLUS, BGP4PLUS_01, TABLE_DUMP,
\* TABLE_DUMP_V2, BGP4MP and BGP4MP_ET; every other recognized type (RIP,
\* RIPNG, OSPFv2, OSPFv3, ISIS and the empty-payload types) ignores sub_type:
\* the call returns what it returns for sub_type 0.
C11_UnsupportedSubtype ==
    \A o \in Outcomes :
        /\ (TheRec.ty \in Subtyped /\ TheRec.sub \notin SubtypeTable(TheRec.ty))
              => Unsupported(o)
        /\ TheRec.ty \in Assigned \ Subtyped
              => /\ o.res = WithSubtype0.res
                 /\ o.kind = WithSubtype0.kind
                 /\ o.record = WithSubtype0.record
                 /\ o.pos = WithSubtype0.pos

\* a TABLE_DUMP_V2 record of the unassigned sub_type 7 was refused by both
\* readers, its body read
C11_Witness ==
    /\ TheRec.ty = 13 /\ TheRec.sub = 7 /\ TheRec.len > 0
    /\ Len(outR) = 1 /\ Unsupported(outR[1])
    /\ Len(outB) = 1 /\ Unsupported(outB[1])

\* C11 (as stated): for every recognized record_type a sub_type the family
\* does not define is an error with no record; for the families without a
\* subtype table this is read in its weakest form, for a sub_type above every
\* subtype that any family defines (12).
C11_AsStated ==
    \A o \in Outcomes :
        (\/ TheRec.ty \in Subtyped /\ TheRec.sub \notin SubtypeTable(TheRec.ty)
         \/ TheRec.ty \in Assigned \ Subtyped /\ TheRec.sub > 12)
            => o.res = "Err" /\ o.record = NoRecord

\* the extended-timestamp types, by their wire codes
ExtendedTypes == {17, 33, 49}

\* the body length the wire length of the record on the stream stands for
BodyLength ==
    IF TheRec.ty \in ExtendedTypes THEN Max(0, TheRec.len - 4) ELSE TheRec.len

\* C12: the Header of a decoded record carries the wire's timestamp,
\* record_type, sub_type and length (the wire length, the 4 extension bytes
\* included); for types 17, 33 and 49 extended is the next 4 bytes and the
\* body is length - 4 bytes (0 if length < 4) after them; for every other type
\* extended is 0 and the body is the length bytes right after the header.
C12_HeaderFromWire ==
    \A o \in Outcomes :
        /\ o.res = "Some" =>
              /\ o.header.timestamp = TheRec.ts
              /\ o.header.record_type = TheRec.ty
              /\ o.header.sub_type = TheRec.sub
              /\ o.header.length = TheRec.len
              /\ o.header.extended =
                    (IF TheRec.ty \in ExtendedTypes THEN BE(Slice(TheRec.rest, 0, 4)) ELSE 0)
        /\ o.pos = 12 + (IF TheRec.ty \in ExtendedTypes THEN 4 ELSE 0) + BodyLength

\* an ISIS_ET record of wire length 6 was decoded: extended is the microsecond
\* field, length is still 6, and the PDU is the 2 bytes after that field
C12_Witness ==
    /\ TheRec.ty = 33 /\ TheRec.len = 6
    /\ Len(outR) = 1 /\ outR[1].res = "Some"
    /\ outR[1].header.extended = 9 /\ outR[1].header.length = 6
    /\ outR[1].record.data = Slice(TheRec.rest, 4, 2)
    /\ outR[1].pos = 18

\* C13 (as amended): a decoded extended-timestamp record (types 17, 33, 49)
\* of wire length L >= 4 has consumed, after the 12-byte header, exactly L
\* bytes: 4 of the microsecond field and L - 4 of body. For L < 4 the call
\* still consumes the 4 bytes of the microsecond field and takes an empty
\* body, so it consumes 4 bytes, not L; an ISIS_ET record of such a length
\* decodes, with an empty PDU.
C13_ExtendedConsumes ==
    \A o \in Outcomes :
        TheRec.ty \in ExtendedTypes =>
            /\ o.res = "Some" => o.pos - 12 = (IF TheRec.len >= 4 THEN TheRec.len ELSE 4)
            /\ (TheRec.ty = 33 /\ TheRec.len < 4) =>
                   o.res = "Some" /\ o.record.data = <<>>

\* an ISIS_ET record of wire length 2 was decoded by both readers, 4 bytes
\* past the header
C13_Witness ==
    /\ TheRec.ty = 33 /\ TheRec.len = 2
    /\ Len(outR) = 1 /\ outR[1].res = "Some" /\ outR[1].pos = 16
    /\ Len(outB) = 1 /\ outB[1].res = "Some" /\ outB[1].pos = 16

\* C13 (as stated): a decoded extended-timestamp record of wire length L has
\* consumed exactly L bytes after the 12-byte header, for every L.
C13_AsStated ==
    \A o \in Outcomes :
        (TheRec.ty \in ExtendedTypes /\ o.res = "Some") => o.pos - 12 = TheRec.len

\* the body of the record on the stream, and the 16-bit value at its even offsets
TheBody == Slice(TheRec.rest, IF TheRec.ty \in ExtendedTypes THEN 4 ELSE 0, BodyLength)
TheAfi == IF BodyLength >= 2 THEN TheBody[2] ELSE 1

\* the Header the readers build for the record on the stream
TheHeader ==
    HeaderFields(Slice(stream, 0, 12),
                 IF TheRec.ty \in ExtendedTypes THEN BE(Slice(TheRec.rest, 0, 4)) ELSE 0)

\* the BGP4MP subtypes of MESSAGE shape, by AS width
Message16 == {1, 6, 8, 10}
Message32 == {4, 7, 9, 11}

\* the decoder of the record on the stream reads an AFI selector ahead of a
\* trailing message
AfiGated ==
    \/ TheRec.ty \in {48, 49}
    \/ TheRec.ty \in {16, 17} /\ TheRec.sub \in Message16 \cup Message32

\* the width of the fixed fields ahead of a trailing field whose length is
\* derived by subtraction, with w the address width; -1 for the other records
FixedWidth(ty, sub, w) ==
    CASE ty = 5 /\ sub \in {1, 5, 6, 7} -> 12
      [] ty \in {9, 10} /\ sub \in {1, 5, 6, 7} -> 36
      [] ty \in {5, 9, 10} /\ sub = 4 -> 2
      [] ty \in {6, 11} -> 8
      [] ty = 8 -> 32
      [] ty \in {48, 49} -> 2 + 2 * w
      [] ty \in {16, 17} /\ sub \in Message16 -> 8 + 2 * w
      [] ty \in {16, 17} /\ sub \in Message32 -> 12 + 2 * w
      [] ty \in {16, 17} /\ sub = 3 -> 2
      [] OTHER -> 0 - 1

\* the fixed width for the record on the stream (4-byte addresses unless its
\* AFI selector is 2)
TheFixed == FixedWidth(TheRec.ty, TheRec.sub, IF TheAfi = 2 THEN 16 ELSE 4)

\* the trailing field of a decoded record
Trailing(r) == IF "message" \in DOMAIN r THEN r.message ELSE r.filename

\* a source that has more bytes than any fixed part needs, with a valid AFI
\* selector at every even offset
LongBody == Pattern(2 * MaxBody, IF TheAfi = 2 THEN 2 ELSE 1)

\* C14 (as amended): for the families whose trailing length is derived by
\* subtraction, read and read_with_buffer hand the decoder exactly body_length
\* bytes, so a record whose body_length is smaller than the fixed width is
\* refused with an error and no record (UnexpectedEof, or InvalidData when an
\* invalid AFI selector was read first); with body_length equal to the fixed
\* width it decodes with an empty trailing field. The subtraction itself
\* saturates: the family decoder given the same header on a source with
\* enough bytes returns an empty trailing field after the fixed fields.
C14_ShortBodyIsError ==
    \A o \in Outcomes :
        TheFixed >= 0 =>
            /\ BodyLength < TheFixed =>
                  /\ o.res = "Err" /\ o.record = NoRecord
                  /\ o.kind \in {"UnexpectedEof", "InvalidData"}
                  /\ o.kind = "InvalidData" => (AfiGated /\ TheAfi \notin {1, 2})
                  /\ parse_record(TheHeader, LongBody).ok
                  /\ Trailing(parse_record(TheHeader, LongBody).val) = <<>>
                  /\ parse_record(TheHeader, LongBody).used = TheFixed
            /\ (BodyLength = TheFixed /\ (AfiGated => TheAfi \in {1, 2})) =>
                  /\ o.res = "Some" /\ Trailing(o.record) = <<>>

\* a BGP4MP MESSAGE record with IPv4 addresses and a 15-byte body, one byte
\* short of its fixed fields, was refused by both readers with UnexpectedEof
C14_Witness ==
    /\ TheRec.ty = 16 /\ TheRec.sub = 1 /\ TheRec.len = 15 /\ TheAfi = 1
    /\ Len(outR) = 1 /\ outR[1] = Err("UnexpectedEof", 27)
    /\ Len(outB) = 1 /\ outB[1] = Err("UnexpectedEof", 27)

\* C14 (as stated): a record of such a family whose body_length is smaller
\* than the sum of its fixed field widths decodes, with a zero-length trailing
\* field.
C14_AsStated ==
    \A o \in Outcomes :
        (TheFixed >= 0 /\ BodyLength < TheFixed) =>
            o.res = "Some" /\ Trailing(o.record) = <<>>

-----------------------------------------------------------------------------
(* Where an unsupported record leaves the stream (SpecRec) *)

\* the record on the stream is of an unassigned type, or of a sub_type its
\* family does not decode
UnsupportedRec ==
    \/ TheRec.ty \notin Assigned
    \/ TheRec.ty \in Subtyped /\ TheRec.sub \notin SubtypeTable(TheRec.ty)

\* the offset right after the header and microsecond field of the record
AfterHeader == 12 + (IF TheRec.ty \in ExtendedTypes THEN 4 ELSE 0)

\* C15 (as amended): when read or read_with_buffer refuses a record because
\* its type or sub_type is unsupported, the body bytes the header declares
\* have been consumed: the stream is left at the next record boundary, and a
\* caller that resumes on the same stream reads from there (here: the clean
\* end of the stream).
C15_UnsupportedBodyConsumed ==
    \A out \in {outR, outB} :
        (UnsupportedRec /\ Len(out) >= 1) =>
            /\ Unsupported(out[1])
            /\ out[1].pos = AfterHeader + BodyLength
            /\ Len(out) >= 2 => out[2] = OkNone(Len(stream))

\* both readers refused a TABLE_DUMP record of sub_type 0 with a 5-byte body,
\* 17 bytes into the stream, and their next call found the clean end
C15_Witness ==
    /\ TheRec.ty = 12 /\ TheRec.sub = 0 /\ TheRec.len = 5
    /\ Len(outR) = 2 /\ outR[1] = Err("InvalidData", 17) /\ outR[2].res = "None"
    /\ Len(outB) = 2 /\ outB[1] = Err("InvalidData", 17) /\ outB[2].res = "None"

\* C15 (as stated): after an unsupported type or sub_type error the body has
\* not been consumed, the stream is right after the header (and microsecond
\* field).
C15_AsStated ==
    \A out \in {outR, outB} :
        (UnsupportedRec /\ Len(out) >= 1 /\ out[1].res = "Err") =>
            out[1].pos = AfterHeader

-----------------------------------------------------------------------------
(* AFI selectors (SpecFam) *)

\* the record on the stream is of a kind whose decoder reads an AFI selector
ReadsAfi ==
    \/ TheRec.ty \in {48, 49}
    \/ TheRec.ty \in {16, 17} /\ TheRec.sub \in (0..11) \ {3}
    \/ TheRec.ty = 13 /\ TheRec.sub \in {6, 12}

\* the offset of its (first) AFI selector in the body
AfiOffset ==
    CASE TheRec.ty \in {48, 49} -> 0
      [] TheRec.ty = 13 -> 4
      [] TheRec.ty \in {16, 17} /\ TheRec.sub \in {4, 5, 7, 9, 11} -> 10
      [] OTHER -> 6

\* the address fields of a decoded record
AddressFields(r) ==
    {"remote", "local", "peer_address", "local_address", "next_hop"} \cap DOMAIN r

\* the AFI selector of a decoded record
AfiField(r) == IF "afi_enum" \in DOMAIN r THEN r.afi_enum ELSE r.afi

\* the address width the AFI selector on the stream stands for
TheWidth == IF TheAfi = 1 THEN 4 ELSE 16

\* a well-formed body of a BGP4MP ENTRY record whose two AFI selectors are a:
\* empty prefix, no attributes
EntryBody(a, w) == Pattern(18 + 3 * w, a) \o <<0, a, 0, 0, 0, 0>>

\* C16: in every record kind that reads an AFI selector from the wire
\* (BGP4MP STATE_CHANGE, MESSAGE, ENTRY and their AS4 variants, OSPFv3,
\* RIB_GENERIC and RIB_GENERIC_ADDPATH), selector 1 gives 4-byte addresses and
\* selector 2 gives 16-byte addresses; any other value makes the call fail
\* with InvalidData and no record, and it does so on the selector alone: the
\* decoder given the body cut right after the selector fails the same way.
C16_AfiGatesWidth ==
    \A o \in Outcomes :
        ReadsAfi =>
            /\ (BodyLength >= AfiOffset + 2 /\ TheAfi \notin {1, 2}) =>
                  /\ Unsupported(o)
                  /\ ~parse_record(TheHeader, Slice(TheBody, 0, AfiOffset + 2)).ok
                  /\ parse_record(TheHeader, Slice(TheBody, 0, AfiOffset + 2)).kind
                        = "InvalidData"
            /\ o.res = "Some" =>
                  /\ TheAfi \in {1, 2}
                  /\ AfiField(o.record) = TheAfi
                  /\ \A f \in AddressFields(o.record) : Len(o.record[f]) = TheWidth
            /\ (TheRec.ty \in {16, 17} /\ TheRec.sub = 2 /\ TheAfi \in {1, 2}) =>
                  LET e == parse_record(TheHeader, EntryBody(TheAfi, TheWidth)) IN
                    /\ e.ok /\ e.used = Len(EntryBody(TheAfi, TheWidth))
                    /\ e.val.afi_enum = TheAfi /\ e.val.next_hop_afi = TheAfi
                    /\ \A f \in AddressFields(e.val) : Len(e.val[f]) = TheWidth
                    /\ AddressFields(e.val) = {"peer_address", "local_address", "next_hop"}

\* an OSPFv3 record with AFI selector 2 was decoded by both readers, with
\* 16-byte remote and local addresses and a 3-byte message
C16_Witness ==
    /\ TheRec.ty = 48 /\ TheRec.len = 37 /\ TheAfi = 2
    /\ Len(outR) = 1 /\ outR[1].res = "Some"
    /\ Len(outR[1].record.remote) = 16 /\ Len(outR[1].record.local) = 16
    /\ Len(outR[1].record.message) = 3
    /\ Len(outB) = 1 /\ outB[1] = outR[1]

-----------------------------------------------------------------------------
(* read_header_only against read (Spec) *)

\* C17: on a concatenation of well-formed records, the k-th call of
\* read_header_only returns what the k-th call of read returns, less the
\* Record: the same Header (or the same clean end), with the stream at the
\* same offset, the k-th record boundary.
C17_HeaderOnlyMatchesRead ==
    (/\ \A i \in 1..Len(input) : input[i] \in WellFormed
     /\ stream = ConcatWire(input))
    => /\ \A k \in 1..Min(Len(outH), Len(outR)) :
             /\ outH[k].res = outR[k].res
             /\ outH[k].header = outR[k].header
             /\ outH[k].pos = outR[k].pos
       /\ \A k \in 1..Len(outH) :
             /\ k <= Len(input) =>
                   outH[k] = HOkSome(WireHeader(input[k]), OffsetAfter(input, k))
             /\ k = Len(input) + 1 => outH[k] = OkNone(Len(stream))

\* an ISIS_ET record (5 bytes after the header: microseconds and a 1-byte PDU)
\* followed by a RIP record; both readers made all three calls, and
\* read_header_only passed the first boundary at offset 17
C17_Witness ==
    /\ stream = ConcatWire(<<RecISIS_ET, RecRIP>>)
    /\ Len(outH) = 3 /\ Len(outR) = 3
    /\ outH[1].res = "Some" /\ outH[1].pos = 17 /\ outH[1].header.extended = 9
    /\ outH[2].res = "Some" /\ outH[2].pos = Len(stream)
    /\ outH[3].res = "None"

-----------------------------------------------------------------------------
(* How far a successful call advances the stream (SpecFam) *)

\* the empty-payload types and their Record variants
EmptyTypes == {0, 1, 2, 3, 4, 7}
EmptyTag(ty) ==
    CASE ty = 0 -> "NULL" [] ty = 1 -> "START" [] ty = 2 -> "DIE"
      [] ty = 3 -> "I_AM_DEAD" [] ty = 4 -> "PEER_DOWN" [] ty = 7 -> "IDRP"

\* the record on the stream is of a family whose fields all have explicit
\* lengths: BGP4MP STATE_CHANGE / STATE_CHANGE_AS4, TABLE_DUMP, TABLE_DUMP_V2
ExplicitLength ==
    \/ TheRec.ty \in {16, 17} /\ TheRec.sub \in {0, 5}
    \/ TheRec.ty = 12 /\ TheRec.sub \in {1, 2}
    \/ TheRec.ty = 13 /\ TheRec.sub \in SubtypeTable(13)

\* the body length from which a STATE_CHANGE or TABLE_DUMP body of the
\* pattern holds all its fields (TABLE_DUMP: attribute length TheAfi);
\* -1 for the other records
EnoughFor ==
    CASE TheRec.ty \in {16, 17} /\ TheRec.sub = 0 /\ TheAfi \in {1, 2} -> 12 + 2 * TheWidth
      [] TheRec.ty \in {16, 17} /\ TheRec.sub = 5 /\ TheAfi \in {1, 2} -> 16 + 2 * TheWidth
      [] TheRec.ty = 12 /\ TheRec.sub = 1 -> 22 + TheAfi
      [] TheRec.ty = 12 /\ TheRec.sub = 2 -> 46 + TheAfi
      [] OTHER -> 0 - 1

\* C18: every successful read or read_with_buffer leaves the stream exactly
\* 12 + (4 for types 17, 33, 49) + body_length bytes on, whatever part of the
\* body the family decoder used: the empty-payload types return their empty
\* variant for every length, the body skipped; and bytes left after the last
\* field of a BGP4MP STATE_CHANGE, TABLE_DUMP or TABLE_DUMP_V2 record are
\* discarded without error, the record being the one decoded from the bytes used.
C18_AdvanceIsBodyLength ==
    \A o \in Outcomes :
        /\ o.res = "Some" =>
              o.pos = AfterHeader + BodyLength /\ o.header = TheHeader
        /\ TheRec.ty \in EmptyTypes =>
              o = OkSome(TheHeader, [tag |-> EmptyTag(TheRec.ty)], 12 + TheRec.len)
        /\ (ExplicitLength /\ parse_record(TheHeader, TheBody).ok) =>
              /\ o.res = "Some"
              /\ o.record = parse_record(TheHeader, TheBody).val
              /\ o.record =
                    parse_record(TheHeader,
                                 Slice(TheBody, 0, parse_record(TheHeader, TheBody).used)).val
        /\ (EnoughFor >= 0 /\ BodyLength >= EnoughFor) =>
              /\ o.res = "Some"
              /\ parse_record(TheHeader, TheBody).used = EnoughFor

\* a BGP4MP STATE_CHANGE record with IPv4 addresses (20 bytes of fields) and
\* a 25-byte body was decoded by both readers, the stream 37 bytes on
C18_Witness ==
    /\ TheRec.ty = 16 /\ TheRec.sub = 0 /\ TheRec.len = 25 /\ TheAfi = 1
    /\ parse_record(TheHeader, TheBody).used = 20
    /\ Len(outR) = 1 /\ outR[1].res = "Some" /\ outR[1].pos = 37
    /\ Len(outB) = 1 /\ outB[1].res = "Some" /\ outB[1].pos = 37

-----------------------------------------------------------------------------
(* Trailing message lengths behind an AFI selector (SpecFam) *)

\* C19: for the BGP4MP subtypes of MESSAGE shape and for OSPFv3, with w the
\* address width of the AFI selector (4 for 1, 16 for 2), a body at least as
\* long as the fixed fields (8 + 2w with 16-bit AS, 12 + 2w with 32-bit AS,
\* 2 + 2w for OSPFv3) decodes, its message is the body_length - fixed bytes
\* after them, and fixed fields and message use up the whole body;
\* body_length is length for types 16 and 48 and length - 4 for 17 and 49.
C19_TrailingMessageLength ==
    \A o \in Outcomes :
        (AfiGated /\ TheAfi \in {1, 2} /\ BodyLength >= TheFixed) =>
            /\ o.res = "Some"
            /\ Len(o.record.message) = BodyLength - TheFixed
            /\ o.record.message = Slice(TheBody, TheFixed, BodyLength - TheFixed)
            /\ parse_record(TheHeader, TheBody).used = BodyLength
            /\ BodyLength = TheRec.len - (IF TheRec.ty \in {17, 49} THEN 4 ELSE 0)

\* an OSPFv3_ET record of wire length 17 with AFI selector 1 was decoded by
\* both readers: 4 microsecond bytes, 10 bytes of fixed fields, 3 of message
C19_Witness ==
    /\ TheRec.ty = 49 /\ TheRec.len = 17 /\ TheAfi = 1
    /\ Len(outR) = 1 /\ outR[1].res = "Some" /\ Len(outR[1].record.message) = 3
    /\ Len(outB) = 1 /\ outB[1].res = "Some" /\ Len(outB[1].record.message) = 3

-----------------------------------------------------------------------------
(* The caller's buffer after read_with_buffer (Spec) *)

\* the offset at which the last call of read_with_buffer started
LastStart == PosBefore(outB, Len(outB))

\* the record type in the header at offset p of the stream
TypeAt(p) == BE(Slice(stream, p + 4, 2))

\* the offset of the body of the record whose header is at offset p
BodyStart(p) == p + 12 + (IF TypeAt(p) \in ExtendedTypes THEN 4 ELSE 0)

\* the last call of read_with_buffer got as far as its body read: it found a
\* whole header and, for an extended-timestamp type, the microsecond field
ReachedBodyRead ==
    /\ Len(outB) >= 1
    /\ Len(stream) >= LastStart + 12
    /\ Len(stream) >= BodyStart(LastStart)

\* C20 (as stated): when a call of read_with_buffer that reached its body
\* read returns, every byte within the logical length of the caller's buffer
\* is the byte of the stream that this body read put there, also when the
\* body read failed for lack of bytes.
C20_BufferOnlyHoldsBodyRead ==
    ReachedBodyRead =>
        \A i \in 1..body_buf.len :
            /\ BodyStart(LastStart) + i <= Len(stream)
            /\ body_buf.mem[i] = stream[BodyStart(LastStart) + i]

\* What holds of the buffer: when the body read succeeded (the call returned
\* a record or a decoder error), the buffer's logical contents are exactly the
\* body, so the decoder ran on the bytes just read.
C20_BufferIsBodyAfterFullRead ==
    (/\ ReachedBodyRead
     /\ Len(stream) >= LastStart + 12 + NeedAfterHeader(stream, LastStart))
    => VecBytes(body_buf) =
          Slice(stream, BodyStart(LastStart),
                LastStart + 12 + NeedAfterHeader(stream, LastStart) - BodyStart(LastStart))

\* the body length declared by the header at offset p of the stream
BodyLengthAt(p) == 12 + NeedAfterHeader(stream, p) - (BodyStart(p) - p)

\* this step is a call of read_with_buffer that gets as far as sizing the
\* buffer: it finds a whole header and, if there is one, the microsecond field
SizingCall ==
    /\ Len(outB') = Len(outB) + 1
    /\ Len(stream) >= posB + 12
    /\ Len(stream) >= BodyStart(posB)

\* C21: over the calls of read_with_buffer on one buffer, the capacity never
\* decreases; a call whose body_length fits the capacity keeps the allocation
\* (same capacity, bytes beyond the body untouched) and only sets the length,
\* any other call leaves a capacity of at least body_length; and after every
\* successful call the buffer's logical contents are that record's body.
C21_BufferCapacityKept ==
    [][/\ body_buf'.cap >= body_buf.cap
       /\ SizingCall =>
             /\ body_buf'.len = BodyLengthAt(posB)
             /\ body_buf.cap >= BodyLengthAt(posB) =>
                   /\ body_buf'.cap = body_buf.cap
                   /\ \A i \in (BodyLengthAt(posB) + 1)..body_buf.cap :
                          body_buf'.mem[i] = body_buf.mem[i]
             /\ body_buf.cap < BodyLengthAt(posB) =>
                   body_buf'.cap >= BodyLengthAt(posB)
       /\ (SizingCall /\ outB'[Len(outB')].res = "Some") =>
             VecBytes(body_buf') = Slice(stream, BodyStart(posB), BodyLengthAt(posB))
      ]_vars

\* a buffer of capacity 4 was reused for the 2-byte body of a START record
\* and then grew for the 9-byte body of a RIP record, which it now holds
C21_Witness ==
    /\ stream = ConcatWire(<<RecSTART, RecRIP>>)
    /\ Len(outB) = 2 /\ outB[2].res = "Some"
    /\ body_buf.cap >= 9 /\ body_buf.len = 9
    /\ VecBytes(body_buf) = RecRIP.rest

-----------------------------------------------------------------------------
(* The reader on streams of one table record (TABLE_DUMP, TABLE_DUMP_V2,    *)
(* BGP4MP ENTRY) built field by field, followed by a NULL record.  Each     *)
(* record carries in want the Record its fields stand for.                  *)

MaxPeers == 2

\* peer_type bytes: the four combinations of bits 0 and 1, with the other six
\* bits clear and set
PeerFlags == {0, 1, 2, 3, 252, 253, 254, 255}

\* view names of 0 and 1 bytes
ViewNames == {<<>>, <<65>>}

\* w address bytes that tell the i-th peer from the others
AddrBytes(w, i) == [j \in 1..w |-> 16 * i + j]

\* the widths bits 1 and 0 of a peer_type byte f select
PeerAddrWidth(f) == IF (f \div 2) % 2 = 1 THEN 16 ELSE 4
PeerAsWidth(f) == IF f % 2 = 1 THEN 4 ELSE 2

\* the i-th peer entry with peer_type f on the wire: peer_type, BGP id,
\* address, AS number
PeerWire(f, i) ==
    <<f>> \o U32(1000 + i) \o AddrBytes(PeerAddrWidth(f), i)
          \o (IF PeerAsWidth(f) = 4 THEN U32(65536 + i) ELSE U16(300 + i))

\* the PeerEntry it stands for
PeerWant(f, i) ==
    [peer_type |-> f, peer_bgp_id |-> 1000 + i,
     peer_ip_address |-> AddrBytes(PeerAddrWidth(f), i),
     peer_as |-> IF PeerAsWidth(f) = 4 THEN 65536 + i ELSE 300 + i]

RECURSIVE PeersWire(_, _)
PeersWire(fs, i) ==
    IF i > Len(fs) THEN <<>> ELSE PeerWire(fs[i], i) \o PeersWire(fs, i + 1)

\* a PEER_INDEX_TABLE record with view name name and the peers of flags fs
PeerTable(name, fs) ==
    Rec(7, 13, 1,
        8 + Len(name) + Len(PeersWire(fs, 1)),
        U32(77) \o U16(Len(name)) \o name \o U16(Len(fs)) \o PeersWire(fs, 1),
        [tag |-> "TABLE_DUMP_V2", sub |-> "PEER_INDEX_TABLE", collector_id |-> 77,
         view_name |-> name,
         peer_entries |-> [i \in 1..Len(fs) |-> PeerWant(fs[i], i)]])

PeerTables ==
    {PeerTable(name, fs) :
        name \in ViewNames, fs \in UNION {[1..n -> PeerFlags] : n \in 0..MaxPeers}}

MaxEntries == 2
MaxAttr == 2
MaxCut == 2
MaxPad == 1

\* the TABLE_DUMP_V2 RIB subtypes: with a prefix (RIB_AFI) or with AFI, SAFI
\* and NLRI (RIB_GENERIC); plain or Add-Path
RibSubs == (2..6) \cup (8..12)
IsGeneric(sub) == sub \in {6, 12}
IsAddPath(sub) == sub \in 8..12

\* prefix bit lengths: the ends of the first bytes, and lengths beyond an
\* IPv4 and an IPv6 address
PrefixLens == {0, 1, 8, 9, 24, 25, 33, 129, 255}

\* n bytes of a field that tell the i-th field from the others
FieldBytes(n, i) == [j \in 1..n |-> 32 * i + j]

\* the i-th RIB entry with alen attribute bytes
RibEntryWant(addpath, alen, i) ==
    IF addpath
    THEN [peer_index |-> i, originated_time |-> 500 + i, path_identifier |-> 70000 + i,
          attributes |-> FieldBytes(alen, i)]
    ELSE [peer_index |-> i, originated_time |-> 500 + i,
          attributes |-> FieldBytes(alen, i)]

\* the RIB record of subtype sub with prefix bit length plen (RIB_GENERIC: an
\* NLRI of plen % 4 bytes) and entries whose attribute lengths are alens
RibWant(sub, plen, alens) ==
    IF IsGeneric(sub)
    THEN [tag |-> "TABLE_DUMP_V2", sequence_number |-> 9, afi |-> 1, safi |-> 1,
          nlri |-> FieldBytes(plen % 4, 7),
          entries |-> [i \in 1..Len(alens) |-> RibEntryWant(IsAddPath(sub), alens[i], i)]]
    ELSE [tag |-> "TABLE_DUMP_V2", sequence_number |-> 9, prefix_length |-> plen,
          prefix |-> FieldBytes((plen + 7) \div 8, 7),
          entries |-> [i \in 1..Len(alens) |-> RibEntryWant(IsAddPath(sub), alens[i], i)]]

\* a RIB entry on the wire: peer index, originated time, the path identifier
\* of an Add-Path entry, attribute length, attributes
RibEntryWire(addpath, e) ==
    U16(e.peer_index) \o U32(e.originated_time)
        \o (IF addpath THEN U32(e.path_identifier) ELSE <<>>)
        \o U16(Len(e.attributes)) \o e.attributes

RECURSIVE RibEntriesWire(_, _, _)
RibEntriesWire(addpath, es, i) ==
    IF i > Len(es) THEN <<>>
    ELSE RibEntryWire(addpath, es[i]) \o RibEntriesWire(addpath, es, i + 1)

\* the body of the RIB record w of subtype sub
RibBody(sub, w) ==
    U32(w.sequence_number)
        \o (IF IsGeneric(sub)
            THEN U16(w.afi) \o <<w.safi>> \o U16(Len(w.nlri)) \o w.nlri
            ELSE <<w.prefix_length>> \o w.prefix)
        \o U16(Len(w.entries)) \o RibEntriesWire(IsAddPath(sub), w.entries, 1)

\* a body with its last bytes cut off (tail < 0) or with bytes added (tail > 0)
WithTail(body, tail) ==
    IF tail < 0 THEN SubSeq(body, 1, Len(body) + tail)
    ELSE body \o [j \in 1..tail |-> 170]

\* a TABLE_DUMP_V2 record of type 13 with the body of w, cut or padded; a cut
\* body stands for no record
RibRec(sub, w, tail) ==
    Rec(7, 13, sub, Len(WithTail(RibBody(sub, w), tail)), WithTail(RibBody(sub, w), tail),
        IF tail < 0 THEN NoRecord ELSE w)

\* the attribute lengths of the entries of one record: up to MaxEntries
\* entries, the first of a bytes and each next one a byte longer, a length
\* above MaxAttr starting again from 0
AttrLens ==
    {[i \in 1..n |-> (a + i - 1) % (MaxAttr + 1)] : n \in 0..MaxEntries, a \in 0..MaxAttr}

\* the RIB records: every prefix length with a complete body, and two prefix
\* lengths with the body cut or padded
RibRecs ==
    {RibRec(sub, RibWant(sub, plen, alens), 0) :
        sub \in RibSubs, plen \in PrefixLens, alens \in AttrLens}
    \cup {RibRec(sub, RibWant(sub, plen, alens), tail) :
             sub \in RibSubs, plen \in {0, 9}, alens \in AttrLens,
             tail \in (0 - MaxCut)..MaxPad}

\* the BGP4MP ENTRY record with AFI a for its three addresses, prefix bit
\* length plen and alen attribute bytes
EntryWant(a, plen, alen) ==
    [peer_as |-> 301, local_as |-> 302, interface |-> 3, afi_enum |-> a,
     peer_address |-> AddrBytes(IF a = 1 THEN 4 ELSE 16, 1),
     local_address |-> AddrBytes(IF a = 1 THEN 4 ELSE 16, 2),
     view_number |-> 4, status |-> 5, time_last_change |-> 600,
     next_hop_afi |-> a, next_hop |-> AddrBytes(IF a = 1 THEN 4 ELSE 16, 3),
     afi |-> a, safi |-> 1, prefix_length |-> plen,
     prefix |-> FieldBytes((plen + 7) \div 8, 7),
     attributes |-> FieldBytes(alen, 1)]

\* its body on the wire
EntryWire(w) ==
    U16(w.peer_as) \o U16(w.local_as) \o U16(w.interface) \o U16(w.afi_enum)
        \o w.peer_address \o w.local_address
        \o U16(w.view_number) \o U16(w.status) \o U32(w.time_last_change)
        \o U16(w.next_hop_afi) \o w.next_hop
        \o U16(w.afi) \o <<w.safi, w.prefix_length>> \o w.prefix
        \o U16(Len(w.attributes)) \o w.attributes

EntryRecs ==
    {Rec(7, 16, 2, Len(EntryWire(EntryWant(a, plen, alen))),
         EntryWire(EntryWant(a, plen, alen)), EntryWant(a, plen, alen)) :
        a \in {1, 2}, plen \in PrefixLens, alen \in 0..MaxAttr}

\* the TABLE_DUMP record with addresses of w bytes and alen attribute bytes
TableDumpWant(w, alen) ==
    [tag |-> "TABLE_DUMP", view_number |-> 11, sequence_number |-> 12,
     prefix |-> AddrBytes(w, 1), prefix_length |-> 24, status |-> 1,
     originated_time |-> 700, peer_address |-> AddrBytes(w, 2), peer_as |-> 303,
     attributes |-> FieldBytes(alen, 1)]

\* its body on the wire
TableDumpWire(w) ==
    U16(w.view_number) \o U16(w.sequence_number) \o w.prefix
        \o <<w.prefix_length, w.status>> \o U32(w.originated_time)
        \o w.peer_address \o U16(w.peer_as)
        \o U16(Len(w.attributes)) \o w.attributes

\* TABLE_DUMP records of sub_type 0..3 (1: 4-byte addresses, 2: 16-byte
\* addresses, 0 and 3: not TABLE_DUMP subtypes), the body cut or padded
TableDumpRecs ==
    {Rec(7, 12, sub,
         Len(WithTail(TableDumpWire(TableDumpWant(IF sub = 2 THEN 16 ELSE 4, alen)), tail)),
         WithTail(TableDumpWire(TableDumpWant(IF sub = 2 THEN 16 ELSE 4, alen)), tail),
         IF tail < 0 \/ sub \notin {1, 2} THEN NoRecord
         ELSE TableDumpWant(IF sub = 2 THEN 16 ELSE 4, alen)) :
        sub \in 0..3, alen \in 0..MaxAttr, tail \in (0 - MaxCut)..MaxPad}

MaxOver == 2

\* body with the w-byte big-endian field at offset off set to v
SetField(body, off, w, v) ==
    SubSeq(body, 1, off) \o (IF w = 1 THEN <<v>> ELSE U16(v))
        \o SubSeq(body, off + w + 1, Len(body))

\* the record r with the field at offset off of its body set to v: a body no
\* decoder accepts
Patched(r, off, w, v) ==
    Rec(r.ts, r.ty, r.sub, r.len, SetField(r.rest, off, w, v), NoRecord)

\* r with the length field at off claiming k bytes more than follow it in the body
LongerThanBody(r, off, k) == Patched(r, off, 2, Len(r.rest) - off - 2 + k)

\* r with the count field at off claiming k items more than the body holds
MoreThanBody(r, off, k) == Patched(r, off, 2, BE(Slice(r.rest, off, 2)) + k)

\* the offset of the entry count in the body of the RIB record w of subtype sub
EntryCountAt(sub, w) ==
    IF IsGeneric(sub) THEN 4 + 2 + 1 + 2 + Len(w.nlri) ELSE 4 + 1 + Len(w.prefix)

\* the complete PEER_INDEX_TABLE records the overshooting ones are made from:
\* peers with 4-byte address and 2-byte AS, or 16-byte address and 4-byte AS
PeerBases ==
    {PeerTable(name, fs) :
        name \in ViewNames, fs \in UNION {[1..n -> {0, 3}] : n \in 0..MaxPeers}}

\* the complete RIB records the overshooting ones are made from
RibBases ==
    {<<sub, RibWant(sub, plen, alens)>> :
        sub \in RibSubs, plen \in {0, 9},
        alens \in AttrLens}

\* complete TABLE_DUMP_V2 and TABLE_DUMP records in which one embedded length
\* or count claims more than the rest of the body: the view-name length and
\* the peer count of a PEER_INDEX_TABLE, the NLRI length of a RIB_GENERIC,
\* the prefix bit length and the entry count of a RIB, the attribute length
\* of the last RIB entry and of a TABLE_DUMP
ViewNameOver == {LongerThanBody(t, 4, k) : t \in PeerBases, k \in 1..MaxOver}
PeerCountOver ==
    {MoreThanBody(t, 6 + Len(t.want.view_name), k) : t \in PeerBases, k \in 1..MaxOver}
NlriOver ==
    {LongerThanBody(RibRec(b[1], b[2], 0), 7, k) :
        b \in {x \in RibBases : IsGeneric(x[1])}, k \in 1..MaxOver}
PrefixOver ==
    {Patched(RibRec(b[1], b[2], 0), 4, 1, 8 * (Len(RibBody(b[1], b[2])) - 5) + j) :
        b \in {x \in RibBases : ~IsGeneric(x[1]) /\ Len(RibBody(x[1], x[2])) <= 35},
        j \in {1, 8}}
EntryCountOver ==
    {MoreThanBody(RibRec(b[1], b[2], 0), EntryCountAt(b[1], b[2]), k) :
        b \in RibBases, k \in 1..MaxOver}
AttrOver ==
    {LongerThanBody(RibRec(b[1], b[2], 0),
                    Len(RibBody(b[1], b[2]))
                        - Len(b[2].entries[Len(b[2].entries)].attributes) - 2, k) :
        b \in {x \in RibBases : Len(x[2].entries) >= 1}, k \in 1..MaxOver}
TableDumpAttrOver ==
    {LongerThanBody(r, Len(r.rest) - Len(r.want.attributes) - 2, k) :
        r \in {x \in TableDumpRecs : x.want # NoRecord /\ Len(x.rest) = Len(TableDumpWire(x.want))},
        k \in 1..MaxOver}

OvershootRecs ==
    ViewNameOver \cup PeerCountOver \cup NlriOver \cup PrefixOver
        \cup EntryCountOver \cup AttrOver \cup TableDumpAttrOver

TabRecs == PeerTables \cup RibRecs \cup EntryRecs \cup TableDumpRecs \cup OvershootRecs

InitTab ==
    /\ \E r \in TabRecs : input = <<r, RecNULL>>
    /\ stream = ConcatWire(input)
    /\ maxcalls = 2
    /\ posR = 0 /\ outR = <<>>
    /\ posB = 0 /\ outB = <<>>
    /\ body_buf = Vec(0, 0, <<>>)
    /\ posH = 0 /\ outH = <<>>
    /\ RAIdle

SpecTab == InitTab /\ [][NextFam]_vars

\* the first call of each reader, if made
FirstCalls ==
    {out[1] : out \in {o \in {outR, outB} : Len(o) >= 1}}

\* the field f of the decoded record r is the field of the record w expected
SameField(r, w, f) == f \in DOMAIN r /\ r[f] = w[f]

\* C22: a PEER_INDEX_TABLE with any number of peer entries decodes to exactly
\* peer_count entries in wire order; each entry's address is 16 bytes if bit 1
\* of its own peer_type is set and 4 bytes otherwise, its AS number is read
\* from 4 bytes if bit 0 is set and from 2 bytes (zero-extended) otherwise,
\* whatever the other six bits and whatever the entries before it; the
\* entries use 1 + 4 + address + AS bytes each, which is the whole body.
C22_PeerEntryWidths ==
    \A o \in FirstCalls :
        TheRec \in PeerTables =>
            /\ o.res = "Some"
            /\ o.record.tag = "TABLE_DUMP_V2" /\ o.record.sub = "PEER_INDEX_TABLE"
            /\ Len(o.record.peer_entries) = Len(TheRec.want.peer_entries)
            /\ \A i \in 1..Len(TheRec.want.peer_entries) :
                   \A f \in {"peer_type", "peer_bgp_id", "peer_ip_address", "peer_as"} :
                       SameField(o.record.peer_entries[i], TheRec.want.peer_entries[i], f)
            /\ parse_record(TheHeader, TheBody).used = TheRec.len
            /\ o.pos = 12 + TheRec.len

\* a table of two peers was decoded by both readers: the first with a 16-byte
\* address and a 4-byte AS (flags 255), the second with a 4-byte address and
\* a 2-byte AS (flags 252)
C22_Witness ==
    /\ TheRec \in PeerTables
    /\ Len(outR) >= 1 /\ outR[1].res = "Some"
    /\ Len(outB) >= 1 /\ outB[1].res = "Some"
    /\ Len(outR[1].record.peer_entries) = 2
    /\ outR[1].record.peer_entries[1].peer_type = 255
    /\ Len(outR[1].record.peer_entries[1].peer_ip_address) = 16
    /\ outR[1].record.peer_entries[1].peer_as = 65537
    /\ outR[1].record.peer_entries[2].peer_type = 252
    /\ Len(outR[1].record.peer_entries[2].peer_ip_address) = 4
    /\ outR[1].record.peer_entries[2].peer_as = 302

\* the RIB entry e decoded is the entry w expected
SameEntry(e, w) == DOMAIN e = DOMAIN w /\ \A f \in DOMAIN w : e[f] = w[f]

\* C23: RIB_AFI, RIB_GENERIC and their Add-Path variants decode exactly
\* entry_count entries in wire order, each with the attribute bytes its own
\* length prefix counts, whether or not bytes follow the last entry in the
\* body; a body that ends before the entries are complete is an error, and no
\* record with fewer entries is returned.
C23_RibEntries ==
    \A o \in FirstCalls :
        TheRec \in RibRecs =>
            /\ TheRec.want # NoRecord =>
                  /\ o.res = "Some"
                  /\ Len(o.record.entries) = Len(TheRec.want.entries)
                  /\ \A i \in 1..Len(TheRec.want.entries) :
                         SameEntry(o.record.entries[i], TheRec.want.entries[i])
            /\ TheRec.want = NoRecord =>
                  o = Err("UnexpectedEof", 12 + TheRec.len)

\* a RIB_IPV4_UNICAST record whose body is followed by a spare byte was
\* decoded with two entries of 2 and 0 attribute bytes
C23_Witness ==
    /\ TheRec \in RibRecs /\ TheRec.sub = 2 /\ TheRec.want # NoRecord
    /\ TheRec.rest[TheRec.len] = 170
    /\ Len(outR) >= 1 /\ outR[1].res = "Some"
    /\ Len(outB) >= 1 /\ outB[1].res = "Some"
    /\ Len(outR[1].record.entries) = 2
    /\ Len(outR[1].record.entries[1].attributes) = 2
    /\ Len(outR[1].record.entries[2].attributes) = 0

\* the bytes of a RIB record ahead of its entries: sequence number, prefix
\* length and prefix (or AFI, SAFI, NLRI length and NLRI), entry count
RibHeadLen(sub, w) ==
    IF IsGeneric(sub) THEN 4 + 2 + 1 + 2 + Len(w.nlri) + 2
    ELSE 4 + 1 + Len(w.prefix) + 2

\* the attribute bytes of the entries es, all together
RECURSIVE AttrTotal(_, _)
AttrTotal(es, i) ==
    IF i > Len(es) THEN 0 ELSE Len(es[i].attributes) + AttrTotal(es, i + 1)

\* the record w with the path identifiers taken out of its entries
WithoutPathIds(w) ==
    [w EXCEPT !.entries =
        [i \in 1..Len(w.entries) |->
            [f \in DOMAIN w.entries[i] \ {"path_identifier"} |-> w.entries[i][f]]]]

\* the fields of a decoded RIB record other than the subtype name
RibFields(r) == [f \in DOMAIN r \ {"sub"} |-> r[f]]

\* C24: in TABLE_DUMP_V2 sub_types 8..12 every RIB entry has a 4-byte path
\* identifier between originated_time and the attribute length, so an entry
\* takes 12 + attr_len bytes where an entry of sub_types 2..6 takes
\* 8 + attr_len; everything else is laid out as in the sub_type 6 below: the
\* same record without its path identifiers, written for that sub_type, is
\* 4 bytes per entry shorter and decodes to the same fields.
C24_AddPathLayout ==
    \A o \in FirstCalls :
        (TheRec \in RibRecs /\ TheRec.want # NoRecord) =>
            /\ o.res = "Some"
            /\ parse_record(TheHeader, TheBody).used =
                  RibHeadLen(TheRec.sub, TheRec.want)
                  + (IF TheRec.sub \in 8..12 THEN 12 ELSE 8) * Len(TheRec.want.entries)
                  + AttrTotal(TheRec.want.entries, 1)
            /\ \A i \in 1..Len(TheRec.want.entries) :
                  IF TheRec.sub \in 8..12
                  THEN /\ "path_identifier" \in DOMAIN o.record.entries[i]
                       /\ o.record.entries[i].path_identifier = 70000 + i
                       /\ Slice(TheBody,
                                RibHeadLen(TheRec.sub, TheRec.want) + 12 * (i - 1)
                                + AttrTotal(SubSeq(TheRec.want.entries, 1, i - 1), 1) + 6,
                                4) = U32(70000 + i)
                  ELSE "path_identifier" \notin DOMAIN o.record.entries[i]
            /\ TheRec.sub \in 8..12 =>
                  LET plain == RibBody(TheRec.sub - 6, WithoutPathIds(TheRec.want))
                      sib == parse_record([TheHeader EXCEPT !.sub_type = @ - 6,
                                                            !.length = Len(plain)],
                                          plain)
                  IN /\ Len(RibBody(TheRec.sub, TheRec.want)) =
                            Len(plain) + 4 * Len(TheRec.want.entries)
                     /\ sib.ok
                     /\ RibFields(sib.val) = RibFields(WithoutPathIds(o.record))

\* a RIB_IPV6_UNICAST_ADDPATH record with two entries of 1 and 2 attribute
\* bytes was decoded, each entry with its path identifier
C24_Witness ==
    /\ TheRec \in RibRecs /\ TheRec.sub = 10 /\ TheRec.want # NoRecord
    /\ Len(outR) >= 1 /\ outR[1].res = "Some"
    /\ Len(outB) >= 1 /\ outB[1].res = "Some"
    /\ Len(outR[1].record.entries) = 2
    /\ outR[1].record.entries[1].path_identifier = 70001
    /\ Len(outR[1].record.entries[1].attributes) = 1
    /\ outR[1].record.entries[2].path_identifier = 70002
    /\ Len(outR[1].record.entries[2].attributes) = 2

\* ceil(n / 8): the number of whole bytes that hold n bits
CeilDiv8(n) == CHOOSE k \in 0..32 : 8 * k >= n /\ 8 * k < n + 8

\* prefix_bytes_needed on every bit length a byte can hold
PrefixBytesIsCeiling == \A n \in 0..255 : prefix_bytes_needed(n) = CeilDiv8(n)

\* C25: prefix_bytes_needed(n) is ceil(n / 8) for every bit length a byte can
\* hold, up to 32 bytes for 255 bits; and RIB_AFI, RIB_AFI_ADDPATH and BGP4MP
\* ENTRY records take exactly that many prefix bytes, for IPv4 and IPv6
\* subtypes alike and for bit lengths beyond an address of the family: the
\* prefix and every field after it decode as written.
C25_PrefixBytes ==
    /\ PrefixBytesIsCeiling
    /\ prefix_bytes_needed(0) = 0 /\ prefix_bytes_needed(1) = 1
    /\ prefix_bytes_needed(8) = 1 /\ prefix_bytes_needed(9) = 2
    /\ prefix_bytes_needed(24) = 3 /\ prefix_bytes_needed(25) = 4
    /\ prefix_bytes_needed(255) = 32
    /\ \A o \in FirstCalls :
          (\/ TheRec \in EntryRecs
           \/ TheRec \in RibRecs /\ ~IsGeneric(TheRec.sub) /\ TheRec.want # NoRecord)
          => /\ o.res = "Some"
             /\ o.record.prefix_length = TheRec.want.prefix_length
             /\ Len(o.record.prefix) = CeilDiv8(TheRec.want.prefix_length)
             /\ o.record.prefix = TheRec.want.prefix
             /\ TheRec \in EntryRecs =>
                   /\ o.record.attributes = TheRec.want.attributes
                   /\ parse_record(TheHeader, TheBody).used = TheRec.len
             /\ TheRec \in RibRecs =>
                   /\ Len(o.record.entries) = Len(TheRec.want.entries)
                   /\ \A i \in 1..Len(TheRec.want.entries) :
                          SameEntry(o.record.entries[i], TheRec.want.entries[i])

\* a RIB_IPV4_UNICAST record with a prefix length of 255 bits was decoded by
\* both readers with a 32-byte prefix and one entry
C25_Witness ==
    /\ TheRec \in RibRecs /\ TheRec.sub = 2 /\ TheRec.want # NoRecord
    /\ Len(outR) >= 1 /\ outR[1].res = "Some"
    /\ Len(outB) >= 1 /\ outB[1].res = "Some"
    /\ outR[1].record.prefix_length = 255 /\ Len(outR[1].record.prefix) = 32
    /\ Len(outR[1].record.entries) = 1

\* C26: TABLE_DUMP takes the address width from the header's sub_type, 4
\* bytes for 1 and 16 for 2, for the prefix and the peer address alike, and
\* any other sub_type is an error; a decoded record has used
\* 2 + 2 + w + 1 + 1 + 4 + w + 2 + 2 bytes and then the attribute bytes its
\* length prefix counts.
C26_TableDumpWidths ==
    \A o \in FirstCalls :
        TheRec \in TableDumpRecs =>
            /\ TheRec.sub \notin {1, 2} => Unsupported(o)
            /\ (TheRec.sub \in {1, 2} /\ TheRec.want = NoRecord) =>
                  o = Err("UnexpectedEof", 12 + TheRec.len)
            /\ TheRec.want # NoRecord =>
                  /\ o.res = "Some"
                  /\ \A f \in DOMAIN TheRec.want : SameField(o.record, TheRec.want, f)
                  /\ Len(o.record.prefix) = (IF TheRec.sub = 1 THEN 4 ELSE 16)
                  /\ Len(o.record.peer_address) = (IF TheRec.sub = 1 THEN 4 ELSE 16)
                  /\ parse_record(TheHeader, TheBody).used =
                        2 + 2 + (IF TheRec.sub = 1 THEN 4 ELSE 16) + 1 + 1 + 4
                        + (IF TheRec.sub = 1 THEN 4 ELSE 16) + 2 + 2
                        + Len(o.record.attributes)

\* a TABLE_DUMP record of sub_type 2 with 2 attribute bytes was decoded by
\* both readers: 16-byte prefix, 16-byte peer address, 48 bytes used
C26_Witness ==
    /\ TheRec \in TableDumpRecs /\ TheRec.sub = 2
    /\ Len(outR) >= 1 /\ outR[1].res = "Some"
    /\ Len(outB) >= 1 /\ outB[1].res = "Some"
    /\ Len(outR[1].record.prefix) = 16 /\ Len(outR[1].record.peer_address) = 16
    /\ Len(outR[1].record.attributes) = 2
    /\ parse_record(TheHeader, TheBody).used = 48

-----------------------------------------------------------------------------
(* Properties of the read-ahead pipeline when the consumer keeps reading *)

\* a read call given a non-empty destination
ProgressRead == (ReadFromBuf \/ ReadWait) /\ req' > 0

\* the producer is blocked in send and the consumer in recv, and no hand-over
\* between the two can happen
MutualWait ==
    /\ ppc \in {"send", "sendlast"} /\ send(queue, queue_depth, rxAlive) = "block"
    /\ cpc = "recv" /\ recv(queue, txAlive).kind = "block"
    /\ ~(queue_depth = 0 /\ queue = <<>> /\ rxAlive)

NextRecordAt(p) == OkSome(HeaderFields(Wire(RecNULL), 0), RecNULL.want, p + 12)

\* C28: a family decoder reads only from the body_length bytes of the
\* record's body: whatever the first call returns, the stream is then at the
\* next record boundary and the second call returns the next record; a
\* decoded record used no more than the body; and an embedded length or count
\* (view-name length, peer count, NLRI length, prefix bit length, entry
\* count, attribute length) that claims more than the rest of the body makes
\* the call an UnexpectedEof error, though the bytes of the next record
\* follow on the stream.
C28_DecoderStaysInBody ==
    /\ \A o \in FirstCalls :
          /\ o.pos = 12 + TheRec.len
          /\ o.res \in {"Some", "Err"}
          /\ o.res = "Some" => parse_record(TheHeader, TheBody).used <= TheRec.len
          /\ TheRec \in OvershootRecs => o = Err("UnexpectedEof", 12 + TheRec.len)
    /\ Len(outR) >= 2 => outR[2] = NextRecordAt(12 + TheRec.len)
    /\ Len(outB) >= 2 => outB[2] = NextRecordAt(12 + TheRec.len)

\* a PEER_INDEX_TABLE whose peer count is one more than the peers its body
\* holds was refused by both readers, and both then returned the next record
C28_Witness ==
    /\ TheRec \in PeerCountOver
    /\ BE(Slice(TheRec.rest, 6, 2)) = 2
    /\ Len(outR) = 2 /\ outR[1] = Err("UnexpectedEof", 12 + TheRec.len)
    /\ outR[2].res = "Some" /\ outR[2].record = [tag |-> "NULL"]
    /\ Len(outB) = 2 /\ outB[1] = Err("UnexpectedEof", 12 + TheRec.len)
    /\ outB[2].res = "Some" /\ outB[2].record = [tag |-> "NULL"]

\* the number of records on the stream and the offset of the last one
LastRec == Len(input)
LastRecStart == OffsetAfter(input, LastRec - 1)

\* the stream ends inside the body of its last record: the header, and the
\* microsecond field of an extended-timestamp type, are whole
CutInBody ==
    /\ input # <<>>
    /\ stream # ConcatWire(input)
    /\ Len(stream) >= LastRecStart + 12
          + (IF input[LastRec].ty \in ExtendedTypes THEN 4 ELSE 0)

\* C29: when the source ends inside the body of its last record,
\* read_header_only returns that record's header with the source positioned
\* where the body would have ended, beyond the end of the source, and its
\* next call returns Ok(None); read and read_with_buffer return an
\* UnexpectedEof error for that record.
C29_HeaderOnlyMissesTruncation ==
    CutInBody =>
        /\ Len(outH) >= LastRec =>
              /\ outH[LastRec] = HOkSome(WireHeader(input[LastRec]),
                                         OffsetAfter(input, LastRec))
              /\ outH[LastRec].pos > Len(stream)
        /\ Len(outH) > LastRec => outH[LastRec + 1].res = "None"
        /\ Len(outR) >= LastRec =>
              outR[LastRec].res = "Err" /\ outR[LastRec].kind = "UnexpectedEof"
        /\ Len(outB) >= LastRec =>
              outB[LastRec].res = "Err" /\ outB[LastRec].kind = "UnexpectedEof"

\* a START record and a RIP record whose 9-byte body lost its last 4 bytes:
\* read_header_only returned both headers and then None, read returned the
\* START record and then an error
C29_Witness ==
    /\ input = <<RecSTART, RecRIP>>
    /\ Len(stream) = Len(ConcatWire(input)) - 4
    /\ Len(outH) = 3 /\ outH[2].res = "Some" /\ outH[2].header.record_type = 6
    /\ outH[2].pos = Len(stream) + 4 /\ outH[3].res = "None"
    /\ Len(outR) >= 2 /\ outR[1].res = "Some" /\ outR[2].res = "Err"

\* what holds of the reader and the queue in every state: pos is within
\* current_buf, no chunk sent or about to be sent is empty, and a read into a
\* non-empty destination has returned 0 only after the terminal item
ReaderInvariant ==
    /\ 0 <= pos /\ pos <= Len(current_buf)
    /\ \A i \in 1..Len(queue) : queue[i].some => queue[i].bytes # <<>>
    /\ ppc = "send" => pitem.some /\ pitem.bytes # <<>>
    /\ ZeroLengthRead => gotNone

\* what holds of every step: a read served from current_buf copies
\* min(requested, current_buf.len() - pos) bytes of it from pos and takes
\* nothing from the queue; a chunk is taken only when current_buf is used up,
\* and the read that takes it copies min(requested, its length) bytes from
\* its start
ReaderStep ==
    /\ (cpc = "idle" /\ cpc' = "idle" /\ <<pos, ret, delivered, req>>' # <<pos, ret, delivered, req>>)
          => /\ pos < Len(current_buf)
             /\ current_buf' = current_buf /\ queue' = queue /\ ntaken' = ntaken
             /\ ret' = IoOk(Min(req', Len(current_buf) - pos))
             /\ pos' = pos + ret'.n
             /\ delivered' = delivered \o Slice(current_buf, pos, ret'.n)
    /\ (current_buf' # current_buf \/ ntaken' # ntaken)
          => /\ pos = Len(current_buf)
             /\ cpc = "recv" /\ cpc' = "idle"
             /\ ntaken' = ntaken + 1
             /\ current_buf' # <<>>
             /\ ret' = IoOk(Min(req, Len(current_buf')))
             /\ pos' = ret'.n
             /\ delivered' = delivered \o Slice(current_buf', 0, ret'.n)

\* C30: ReadAheadReader keeps 0 <= pos <= current_buf.len(); one read copies
\* min(requested, current_buf.len() - pos) bytes from the current chunk
\* only, a new chunk is taken from the queue only when the current one is
\* fully consumed, the producer never enqueues an empty chunk, and a read
\* into a non-empty destination returns 0 only at the end of the stream.
C30_ReaderInvariants == []ReaderInvariant /\ [][ReaderStep]_vars

\* a read of 2 bytes with 1 byte left in a 2-byte chunk returned that 1 byte,
\* though the next chunk was waiting in the queue
C30_Witness ==
    /\ chunk_size = 2 /\ Len(current_buf) = 2 /\ pos = 2
    /\ cpc = "idle" /\ req = 2 /\ ret = IoOk(1)
    /\ queue # <<>> /\ queue[1].some
    /\ Len(delivered) = 4
=============================================================================
